---------------------------- MODULE Spec2Model ----------------------------
(***************************************************************************)
(* Route optimization core of the dashboard: the progressive optimizer     *)
(* (progressiveOptimizer.ts) and the synchronous optimizer with            *)
(* alternatives (the routeOptimizer part of client.ts).                    *)
(*                                                                         *)
(* Coordinates are grid offsets in units of 0.0001 degree from a base      *)
(* point one step south-west of the Melbourne depot, so the depot is the   *)
(* grid point (1, 1).  Distances are the haversine distances of those      *)
(* points rounded to the centimetre; 0.01 km is 1000 cm.                   *)
(***************************************************************************)
EXTENDS Integers, Sequences, FiniteSets, TLC

(***************************************************************************)
(* Bounds of the model.                                                    *)
(***************************************************************************)
MaxSites == 3
MaxVehicles == 2

(***************************************************************************)
(* Generic helpers for JavaScript array operations.                        *)
(***************************************************************************)
Abs(x) == IF x < 0 THEN -x ELSE x

Min2(a, b) == IF a < b THEN a ELSE b

Range(s) == {s[i] : i \in 1..Len(s)}

\* Array.prototype.splice(index, 1) on a copy, index 1-based here.
RemoveAt(s, idx) == [i \in 1..(Len(s) - 1) |-> IF i < idx THEN s[i] ELSE s[i + 1]]

\* Array.prototype.map: the sequence of F(s[1]), ..., F(s[Len(s)]).
MapSeq(s, F(_)) ==
  LET out[n \in 0..Len(s)] ==
        IF n = 0 THEN <<>> ELSE Append(out[n - 1], F(s[n]))
  IN out[Len(s)]

\* Array.prototype.sort is stable.  SortedOrder(keys) is the order in which a
\* stable ascending sort places the positions 1..Len(keys): a position is
\* placed behind every position already placed whose key is not greater.
RECURSIVE InsertByKey(_, _, _)
InsertByKey(order, p, keys) ==
  IF order = <<>> THEN <<p>>
  ELSE IF keys[order[Len(order)]] <= keys[p]
       THEN Append(order, p)
       ELSE Append(InsertByKey(SubSeq(order, 1, Len(order) - 1), p, keys),
                   order[Len(order)])

RECURSIVE SortedPrefix(_, _)
SortedPrefix(keys, n) ==
  IF n = 0 THEN <<>>
  ELSE InsertByKey(SortedPrefix(keys, n - 1), n, keys)

SortedOrder(keys) == SortedPrefix(keys, Len(keys))

\* s rearranged by a stable ascending sort on keys (keys[i] is the key of s[i]).
SortByKey(s, keys) == MapSeq(SortedOrder(keys), LAMBDA p : s[p])

\* Number of positions of s that hold x.
CountOf(s, x) == Cardinality({i \in 1..Len(s) : s[i] = x})

\* s and t hold the same elements the same number of times.
SameMultiset(s, t) ==
  /\ Len(s) = Len(t)
  /\ \A x \in Range(s) \cup Range(t) : CountOf(s, x) = CountOf(t, x)

\* All subsequences of s (order kept) of at most n elements.
RECURSIVE SubSequences(_, _)
SubSequences(s, n) ==
  IF s = <<>> \/ n = 0 THEN {<<>>}
  ELSE LET rest == SubSeq(s, 2, Len(s))
       IN SubSequences(rest, n) \cup {<<s[1]>> \o t : t \in SubSequences(rest, n - 1)}

(***************************************************************************)
(* Strings that the code inspects are sequences of characters.             *)
(***************************************************************************)
UpperLetters == <<"A","B","C","D","E","F","G","H","I","J","K","L","M",
                  "N","O","P","Q","R","S","T","U","V","W","X","Y","Z">>
LowerLetters == <<"a","b","c","d","e","f","g","h","i","j","k","l","m",
                  "n","o","p","q","r","s","t","u","v","w","x","y","z">>

\* String.prototype.toLowerCase
toLowerCase(str) ==
  [i \in 1..Len(str) |->
     IF \E u \in 1..26 : UpperLetters[u] = str[i]
     THEN LowerLetters[CHOOSE u \in 1..26 : UpperLetters[u] = str[i]]
     ELSE str[i]]

\* String.prototype.includes
includes(str, sub) ==
  \E i \in 0..(Len(str) - Len(sub)) : SubSeq(str, i + 1, i + Len(sub)) = sub

StrDelivery == <<"d","e","l","i","v","e","r","y">>
StrCollection == <<"c","o","l","l","e","c","t","i","o","n">>
StrCompetitorRental ==
  <<"c","o","m","p","e","t","i","t","o","r","_","r","e","n","t","a","l">>

(***************************************************************************)
(* Geo-distance utility.                                                   *)
(***************************************************************************)
\* Haversine distance in cm of two grid points, by |dLat| and |dLng| in
\* grid steps (rows: dLat = 0..3, columns: dLng = 0..3).
HaversineCm ==
  << <<   0,  878, 1757, 2635>>,
     <<1112, 1417, 2079, 2860>>,
     <<2224, 2391, 2834, 3448>>,
     <<3336, 3450, 3770, 4251>> >>

calculateDistance(a, b) ==
  HaversineCm[Abs(b.lat - a.lat) + 1][Abs(b.lng - a.lng) + 1]

calculateRouteDistance(route) ==
  LET total[i \in 0..Len(route)] ==
        IF i <= 1 THEN 0
        ELSE total[i - 1] + calculateDistance(route[i - 1], route[i])
  IN total[Len(route)]

\* 0.01 km, the improvement a 2-opt move must exceed.
Epsilon == 1000

\* Infinity of the running minima; every distance is below it.
Infinity == 1000000

(***************************************************************************)
(* Inputs: the depot and the site records a run can be given.              *)
(***************************************************************************)
Loc(la, lo) == [lat |-> la, lng |-> lo]

depotLocation == Loc(1, 1)

Task(label) == [type |-> label]

Site(name, la, lo, tasks) ==
  [id |-> name, location |-> Loc(la, lo), transport_tasks |-> tasks]

LabelDeliveryStandard ==
  <<"D","e","l","i","v","e","r","y","-","S","t","a","n","d","a","r","d">>
LabelDeliveryUpper == <<"D","E","L","I","V","E","R","Y">>
LabelCollectionUrgent ==
  <<"C","o","l","l","e","c","t","i","o","n","-","U","r","g","e","n","t">>
LabelSwap == <<"S","w","a","p">>

\* The site records of the model, in the order the caller lists them.
SiteUniverse ==
  << Site("HC1", 1, 2, <<Task(LabelDeliveryStandard)>>),
     Site("HC2", 0, 1, <<>>),
     Site("HC3", 1, 0, <<Task(LabelDeliveryUpper)>>),
     Site("HC4", 2, 2, <<Task(LabelDeliveryStandard), Task(LabelCollectionUrgent)>>) >>

\* The site lists a run is started with.
InputSites == SubSequences(SiteUniverse, MaxSites)

(***************************************************************************)
(* Task consolidator and priority selector.                                *)
(***************************************************************************)
hasTasks(site) == Len(site.transport_tasks) > 0

consolidateSiteTasks(sites) == SelectSeq(sites, hasTasks)

\* Fault variants of priorityScore: the labels are tested without
\* toLowerCase(); the competitor rental bonus is missing.
priorityScoreCaseSensitive(site) ==
  LET tasks == site.transport_tasks
      hasDelivery == \E i \in 1..Len(tasks) : includes(tasks[i].type, StrDelivery)
      hasCollection == \E i \in 1..Len(tasks) : includes(tasks[i].type, StrCollection)
      hasCompetitor == \E i \in 1..Len(tasks) : tasks[i].type = StrCompetitorRental
  IN Len(tasks) * 10
     + (IF hasDelivery THEN 50 ELSE 0)
     + (IF hasCollection THEN 30 ELSE 0)
     + (IF hasCompetitor THEN 100 ELSE 0)

priorityScoreNoCompetitor(site) ==
  LET tasks == site.transport_tasks
      hasDelivery ==
        \E i \in 1..Len(tasks) : includes(toLowerCase(tasks[i].type), StrDelivery)
      hasCollection ==
        \E i \in 1..Len(tasks) : includes(toLowerCase(tasks[i].type), StrCollection)
  IN Len(tasks) * 10
     + (IF hasDelivery THEN 50 ELSE 0)
     + (IF hasCollection THEN 30 ELSE 0)

priorityScore(site) ==
  LET tasks == site.transport_tasks
      hasDelivery ==
        \E i \in 1..Len(tasks) : includes(toLowerCase(tasks[i].type), StrDelivery)
      hasCollection ==
        \E i \in 1..Len(tasks) : includes(toLowerCase(tasks[i].type), StrCollection)
      hasCompetitor ==
        \E i \in 1..Len(tasks) : tasks[i].type = StrCompetitorRental
  IN Len(tasks) * 10
     + (IF hasDelivery THEN 50 ELSE 0)
     + (IF hasCollection THEN 30 ELSE 0)
     + (IF hasCompetitor THEN 100 ELSE 0)

\* Fault variant of sortByPriority: the comparator a.priorityScore - b.priorityScore.
sortByPriorityAscending(sitesWithPriority) ==
  SortByKey(sitesWithPriority, MapSeq(sitesWithPriority, LAMBDA x : x.priorityScore))

\* sort((a, b) => b.priorityScore - a.priorityScore): descending score,
\* i.e. ascending negated score.
sortByPriority(sitesWithPriority) ==
  SortByKey(sitesWithPriority, MapSeq(sitesWithPriority, LAMBDA x : 0 - x.priorityScore))

\* Fault variant of sliceFromStart: slice(0, end + 1).
sliceFromStartInclusive(s, end) == SubSeq(s, 1, Min2(end + 1, Len(s)))

\* Array.prototype.slice(0, end) for end >= 0.
sliceFromStart(s, end) == SubSeq(s, 1, Min2(end, Len(s)))

WEEKLY_PRIORITY_CAPACITY == 43

selectWeeklyPriorityTasks(sites, weeklyCapacity) ==
  LET sitesWithTasks == SelectSeq(sites, hasTasks)
      sitesWithPriority ==
        MapSeq(sitesWithTasks,
               LAMBDA site : [site |-> site, priorityScore |-> priorityScore(site)])
      selectedSites ==
        MapSeq(sliceFromStart(sortByPriority(sitesWithPriority), weeklyCapacity),
               LAMBDA item : item.site)
  IN selectedSites

(***************************************************************************)
(* Spatial clusterer of the progressive optimizer.                         *)
(***************************************************************************)
\* The k seed centers: the sites at ranks floor((i / k) * n), i = 0..k-1, of
\* the sites sorted by ascending latitude.
clusterCenters(sites, k) ==
  LET sorted == SortByKey(sites, MapSeq(sites, LAMBDA s : s.location.lat))
      center(i) == sorted[((i * Len(sites)) \div k) + 1].location
      push[n \in 0..k] == IF n = 0 THEN <<>> ELSE Append(push[n - 1], center(n - 1))
  IN push[k]

\* Fault variant of nearestCenter: a center at the same distance replaces the
\* running choice.
nearestCenterLastOnTie(centers, loc) ==
  LET scan[n \in 0..Len(centers)] ==
        IF n = 0 THEN [minDist |-> Infinity, clusterIndex |-> 0]
        ELSE LET prev == scan[n - 1]
                 dist == calculateDistance(centers[n], loc)
             IN IF dist <= prev.minDist
                THEN [minDist |-> dist, clusterIndex |-> n - 1]
                ELSE prev
  IN scan[Len(centers)].clusterIndex

\* The 0-based index of the center nearest to loc; 0 when there is no center.
\* A center replaces the running choice only when strictly nearer.
nearestCenter(centers, loc) ==
  LET scan[n \in 0..Len(centers)] ==
        IF n = 0 THEN [minDist |-> Infinity, clusterIndex |-> 0]
        ELSE LET prev == scan[n - 1]
                 dist == calculateDistance(centers[n], loc)
             IN IF dist < prev.minDist
                THEN [minDist |-> dist, clusterIndex |-> n - 1]
                ELSE prev
  IN scan[Len(centers)].clusterIndex

\* Fault variant of clusterSitesThrows: a push into a missing cluster is
\* taken to create it.
clusterSitesNeverThrows(input, k) == FALSE

\* clusters[clusterIndex].push(site) raises a TypeError when the array of k
\* clusters has no element at clusterIndex.
clusterSitesThrows(sites, k) ==
  /\ Len(sites) # 0
  /\ Len(sites) > k
  /\ \E i \in 1..Len(sites) :
       nearestCenter(clusterCenters(sites, k), sites[i].location) >= k

\* Fault variant of clusterSites: the seeded path returns the k clusters
\* without filtering out the empty ones.
clusterSitesKeepEmpty(sites, k) ==
  IF Len(sites) = 0 THEN <<>>
  ELSE IF Len(sites) <= k THEN [i \in 1..Len(sites) |-> <<sites[i]>>]
  ELSE LET centers == clusterCenters(sites, k)
           member(s, c) == nearestCenter(centers, s.location) = c - 1
       IN [c \in 1..k |-> SelectSeq(sites, LAMBDA s : member(s, c))]

clusterSites(sites, k) ==
  IF Len(sites) = 0 THEN <<>>
  ELSE IF Len(sites) <= k THEN [i \in 1..Len(sites) |-> <<sites[i]>>]
  ELSE LET centers == clusterCenters(sites, k)
           member(s, c) == nearestCenter(centers, s.location) = c - 1
           clusters == [c \in 1..k |-> SelectSeq(sites, LAMBDA s : member(s, c))]
       IN SelectSeq(clusters, LAMBDA c : Len(c) > 0)

(***************************************************************************)
(* Route constructor.  Math.random() returns a value in [0, 1): the test   *)
(* Math.random() < randomFactor can succeed when randomFactor > 0 and can  *)
(* fail when randomFactor < 1.  Random factors are in thousandths.         *)
(***************************************************************************)
\* Fault variant of nearestIndex: a site at the same distance replaces the
\* running choice.
nearestIndexLastOnTie(current, remaining) ==
  LET scan[n \in 0..Len(remaining)] ==
        IF n = 0 THEN [minDist |-> Infinity, selectedIndex |-> 1]
        ELSE LET prev == scan[n - 1]
                 dist == calculateDistance(current, remaining[n].location)
             IN IF dist <= prev.minDist
                THEN [minDist |-> dist, selectedIndex |-> n]
                ELSE prev
  IN scan[Len(remaining)].selectedIndex

\* The 1-based index of the remaining site nearest to current, the first such
\* site on a tie (selectedIndex starts at the first site).
nearestIndex(current, remaining) ==
  LET scan[n \in 0..Len(remaining)] ==
        IF n = 0 THEN [minDist |-> Infinity, selectedIndex |-> 1]
        ELSE LET prev == scan[n - 1]
                 dist == calculateDistance(current, remaining[n].location)
             IN IF dist < prev.minDist
                THEN [minDist |-> dist, selectedIndex |-> n]
                ELSE prev
  IN scan[Len(remaining)].selectedIndex

\* The indices one pass of the while loop can select.
selectableIndices(current, remaining, randomFactor) ==
  (IF randomFactor > 0 THEN 1..Len(remaining) ELSE {})
    \cup (IF randomFactor < 1000 THEN {nearestIndex(current, remaining)} ELSE {})

\* Fault variant of routeCompletions: remaining.shift() in place of
\* remaining.splice(selectedIndex, 1).
RECURSIVE routeCompletionsShifting(_, _, _, _)
routeCompletionsShifting(route, remaining, depot, randomFactor) ==
  IF Len(remaining) = 0 THEN {Append(route, depot)}
  ELSE UNION { routeCompletionsShifting(Append(route, remaining[idx].location),
                                        SubSeq(remaining, 2, Len(remaining)),
                                        depot, randomFactor)
               : idx \in selectableIndices(route[Len(route)], remaining, randomFactor) }

\* The routes the while loop can complete from a partial route.
RECURSIVE routeCompletions(_, _, _, _)
routeCompletions(route, remaining, depot, randomFactor) ==
  IF Len(remaining) = 0 THEN {Append(route, depot)}
  ELSE UNION { routeCompletions(Append(route, remaining[idx].location),
                                RemoveAt(remaining, idx), depot, randomFactor)
               : idx \in selectableIndices(route[Len(route)], remaining, randomFactor) }

\* Fault variant of generateRoute: the closing route.push(depot) is missing
\* after the while loop.
generateRouteNoReturn(depot, sites, randomFactor) ==
  IF Len(sites) = 0 THEN {<<depot, depot>>}
  ELSE { SubSeq(r, 1, Len(r) - 1)
         : r \in routeCompletions(<<depot>>, sites, depot, randomFactor) }

\* The set of routes generateRoute(depot, sites, randomFactor) can return.
generateRoute(depot, sites, randomFactor) ==
  IF Len(sites) = 0 THEN {<<depot, depot>>}
  ELSE routeCompletions(<<depot>>, sites, depot, randomFactor)

(***************************************************************************)
(* 2-opt local search.  Indices are 1-based: the code's pair (i, j) is     *)
(* (i + 1, j + 1) here.                                                    *)
(***************************************************************************)
\* Fault variant of reverseSegment: the tail is slice(j + 2), which drops the
\* point behind the reversed segment.
reverseSegmentDropping(route, i, j) ==
  [p \in 1..(Len(route) - 1) |->
     IF p < i THEN route[p] ELSE IF p <= j THEN route[i + j - p] ELSE route[p + 1]]

\* [...slice(0, i), ...slice(i, j + 1).reverse(), ...slice(j + 1)]
reverseSegment(route, i, j) ==
  [p \in 1..Len(route) |-> IF p >= i /\ p <= j THEN route[i + j - p] ELSE route[p]]

\* The pairs one scan visits.
scanPairs(route) ==
  {<<i, j>> \in (2..(Len(route) - 2)) \X (3..(Len(route) - 1)) : i < j}

\* The pairs of one scan whose reversal is accepted.
improvingPairs(route) ==
  LET bestDist == calculateRouteDistance(route)
  IN {p \in scanPairs(route) :
        calculateRouteDistance(reverseSegment(route, p[1], p[2])) < bestDist - Epsilon}

\* The first pair in scan order (i outer, j inner).
firstPair(pairs) ==
  CHOOSE p \in pairs :
    \A q \in pairs : p[1] < q[1] \/ (p[1] = q[1] /\ p[2] <= q[2])

\* The while loop: one scan per iteration, at most one reversal per scan.
RECURSIVE twoOptLoop(_, _, _)
twoOptLoop(bestRoute, iterations, maxIterations) ==
  IF iterations >= maxIterations THEN bestRoute
  ELSE LET accepted == improvingPairs(bestRoute)
       IN IF accepted = {} THEN bestRoute
          ELSE LET p == firstPair(accepted)
               IN twoOptLoop(reverseSegment(bestRoute, p[1], p[2]),
                             iterations + 1, maxIterations)

\* bestRoute[bestRoute.length - 1] = bestRoute[0]
closeRoute(route) ==
  IF Len(route) > 0 THEN [route EXCEPT ![Len(route)] = route[1]] ELSE route

improve2Opt(route, maxIterations) ==
  IF Len(route) <= 3 THEN route
  ELSE closeRoute(twoOptLoop(route, 0, maxIterations))

(***************************************************************************)
(* Progressive population driver: optimizeWithProgress.                    *)
(***************************************************************************)
generations == 10
populationSize == 8

\* randomFactor of a generation (0-based gen), in thousandths.
randomFactor(g) == IF g < 4 THEN 400 ELSE IF g < 8 THEN 200 ELSE 50

\* randomFactor * (1 + individual * 0.3), in thousandths.
individualRandomFactor(g, ind) == (randomFactor(g) * (10 + ind * 3)) \div 10

\* `Truck-${String.fromCharCode(65 + clusterIndex)}`
vehicleId(clusterIndex) == <<"Truck-", UpperLetters[clusterIndex + 1]>>

\* Fault variant of appliesTwoOpt: the threshold is compared with the 1-based
\* generation index.
appliesTwoOptOneBased(g) == g + 1 > 3

\* if (gen > 3), for the loop counter g.
appliesTwoOpt(g) == g > 3

\* gen > 8 ? 50 : 30
twoOptIterations(g) == IF g > 8 THEN 50 ELSE 30

\* The routes one cluster can get in generation g for member ind: constructed,
\* then refined by 2-opt once gen > 3.
clusterRoutes(depot, cluster, g, ind) ==
  { IF appliesTwoOpt(g) THEN improve2Opt(route, twoOptIterations(g)) ELSE route
    : route \in generateRoute(depot, cluster, individualRandomFactor(g, ind)) }

\* Fault variant of routeCandidate: the distance leaves out the leg back to
\* the depot.
routeCandidateOpen(clusterIndex, route, g) ==
  [vehicleId |-> vehicleId(clusterIndex),
   route |-> route,
   distance |-> calculateRouteDistance(SubSeq(route, 1, Len(route) - 1)),
   generation |-> g]

routeCandidate(clusterIndex, route, g) ==
  [vehicleId |-> vehicleId(clusterIndex),
   route |-> route,
   distance |-> calculateRouteDistance(route),
   generation |-> g]

\* The values `routes` can have after the loop over the first n clusters.
RECURSIVE memberRoutes(_, _, _, _, _)
memberRoutes(depot, cls, n, g, ind) ==
  IF n = 0 THEN {<<>>}
  ELSE IF Len(cls[n]) = 0 THEN memberRoutes(depot, cls, n - 1, g, ind)
  ELSE { Append(routes, routeCandidate(n - 1, route, g))
         : routes \in memberRoutes(depot, cls, n - 1, g, ind),
           route \in clusterRoutes(depot, cls[n], g, ind) }

\* solution.reduce((sum, r) => sum + r.distance, 0)
totalDistance(routes) ==
  LET sum[i \in 0..Len(routes)] ==
        IF i = 0 THEN 0 ELSE sum[i - 1] + routes[i].distance
  IN sum[Len(routes)]

\* Fault variant of reduceBest: a member of the same total distance replaces
\* the earlier one.
reduceBestOrTies(best, current) ==
  IF totalDistance(current) <= totalDistance(best) THEN current ELSE best

\* One step of population.reduce: the earlier member stays unless the current
\* one is strictly shorter.
reduceBest(best, current) ==
  IF totalDistance(current) < totalDistance(best) THEN current ELSE best

\* Fault variants of improvesGlobalBest: ties replace the global best; the
\* comparison is reversed; every generation replaces the global best.
improvesGlobalBestOrTies(generationBestDistance, best) == generationBestDistance <= best

improvesGlobalBestReversed(generationBestDistance, best) == generationBestDistance > best

improvesGlobalBestAlways(generationBestDistance, best) == TRUE

\* generationBestDistance < bestTotalDistance
improvesGlobalBest(generationBestDistance, best) == generationBestDistance < best

\* Fault variant of progressOf: the loop counter is reported as it is.
progressOfLoopCounter(g, routes, generationBestDistance, isBest) ==
  [generation |-> g,
   routes |-> routes,
   totalDistance |-> generationBestDistance,
   isBest |-> isBest]

\* Fault variant of progressOf: every snapshot is flagged as a new best.
progressOfAlwaysBest(g, routes, generationBestDistance, isBest) ==
  [generation |-> g + 1,
   routes |-> routes,
   totalDistance |-> generationBestDistance,
   isBest |-> TRUE]

\* The argument of progressCallback for the 0-based generation g.
progressOf(g, routes, generationBestDistance, isBest) ==
  [generation |-> g + 1,
   routes |-> routes,
   totalDistance |-> generationBestDistance,
   isBest |-> isBest]

NoSnapshot == [generation |-> 0, routes |-> <<>>, totalDistance |-> 0, isBest |-> FALSE]

(***************************************************************************)
(* Synchronous optimizer: optimizeRoutesWithAlternatives and its helpers.  *)
(* The Route fields `tasks` and `score` are written but never read by the  *)
(* optimizer and are left out.                                             *)
(***************************************************************************)
\* The Task records one site contributes.
siteDailyTasks(site) ==
  LET tasks == site.transport_tasks
      isDelivery(t) == includes(toLowerCase(t.type), StrDelivery)
      isCollection(t) == includes(toLowerCase(t.type), StrCollection)
      daily(kind, prio) ==
        [siteId |-> site.id, location |-> site.location, type |-> kind, priority |-> prio]
  IN IF Len(tasks) = 0 THEN <<>>
     ELSE IF Len(tasks) > 3
     THEN (IF \E i \in 1..Len(tasks) : isDelivery(tasks[i])
           THEN <<daily("delivery", 1)>> ELSE <<>>)
          \o (IF \E i \in 1..Len(tasks) : isCollection(tasks[i])
              THEN <<daily("collection", 2)>> ELSE <<>>)
     ELSE [i \in 1..Len(tasks) |->
             IF isDelivery(tasks[i]) THEN daily("delivery", 1)
             ELSE daily("collection", 2)]

selectDailyTasks(input) ==
  LET acc[n \in 0..Len(input)] ==
        IF n = 0 THEN <<>> ELSE acc[n - 1] \o siteDailyTasks(input[n])
  IN acc[Len(input)]

\* min over the centers of the distance to loc.
minCenterDistance(centers, loc) ==
  LET scan[n \in 0..Len(centers)] ==
        IF n = 0 THEN Infinity
        ELSE Min2(scan[n - 1], calculateDistance(centers[n], loc))
  IN scan[Len(centers)]

\* The task farthest from the centers chosen so far: the first task of the
\* sorted list unless a later one has a strictly larger distance.
farthestTask(allTasks, centers) ==
  LET scan[n \in 0..Len(allTasks)] ==
        IF n = 0 THEN [maxMinDist |-> 0, farthest |-> allTasks[1]]
        ELSE LET prev == scan[n - 1]
                 minDist == minCenterDistance(centers, allTasks[n].location)
             IN IF minDist > prev.maxMinDist
                THEN [maxMinDist |-> minDist, farthest |-> allTasks[n]]
                ELSE prev
  IN scan[Len(allTasks)].farthest

\* The centers after the seeding loop: the lowest-latitude task, then k - 1
\* times the task farthest from the centers so far.
RECURSIVE syncCenters(_, _)
syncCenters(allTasks, n) ==
  IF n <= 1 THEN <<allTasks[1].location>>
  ELSE LET centers == syncCenters(allTasks, n - 1)
       IN Append(centers, farthestTask(allTasks, centers).location)

\* allTasks.sort(...)[0].location raises a TypeError on an empty task list,
\* and clusters[clusterIndex].push(task) raises one when k is 0.
syncClusterSitesThrows(tasks, k) == Len(tasks) = 0 \/ k < 1

syncClusterSites(tasks, k) ==
  LET allTasks == SortByKey(tasks, MapSeq(tasks, LAMBDA t : t.location.lat))
      centers == syncCenters(allTasks, k)
      member(t, c) == nearestCenter(centers, t.location) = c - 1
      clusters == [c \in 1..k |-> SelectSeq(tasks, LAMBDA t : member(t, c))]
  IN SelectSeq(clusters, LAMBDA c : Len(c) > 0)

\* Nearest-neighbour tour, the first nearest task on a tie.
RECURSIVE greedyLoop(_, _, _)
greedyLoop(route, remaining, depot) ==
  IF Len(remaining) = 0 THEN Append(route, depot)
  ELSE LET idx == nearestIndex(route[Len(route)], remaining)
       IN greedyLoop(Append(route, remaining[idx].location),
                     RemoveAt(remaining, idx), depot)

\* Fault variant of greedyTSP: the tasks are visited in the order of the list.
greedyTSPInListOrder(depot, tasks) ==
  <<depot>> \o MapSeq(tasks, LAMBDA t : t.location) \o <<depot>>

greedyTSP(depot, tasks) ==
  IF Len(tasks) = 0 THEN <<depot, depot>> ELSE greedyLoop(<<depot>>, tasks, depot)

twoOptImprove(route) ==
  IF Len(route) <= 3 THEN route
  ELSE closeRoute(twoOptLoop(route, 0, 100))

\* All orders of the elements of s.
RECURSIVE AllOrders(_)
AllOrders(s) ==
  IF Len(s) = 0 THEN {<<>>}
  ELSE UNION { {<<s[i]>> \o t : t \in AllOrders(RemoveAt(s, i))} : i \in 1..Len(s) }

\* The task orders one cluster can be routed in: as clustered, or, when
\* randomFactor > 0.5, as left by a sort with a random comparator.
shuffledOrders(clusterTasks) == {clusterTasks} \cup AllOrders(clusterTasks)

syncRoute(clusterIndex, routePoints) ==
  [vehicleId |-> vehicleId(clusterIndex),
   route |-> routePoints,
   totalDistance |-> calculateRouteDistance(routePoints)]

\* The values `routes` of one iteration can have after the first n clusters.
RECURSIVE alternativeRoutes(_, _, _)
alternativeRoutes(depot, taskClusters, n) ==
  IF n = 0 THEN {<<>>}
  ELSE IF Len(taskClusters[n]) = 0 THEN alternativeRoutes(depot, taskClusters, n - 1)
  ELSE { Append(routes, syncRoute(n - 1, greedyTSP(depot, shuffledTasks)))
         : routes \in alternativeRoutes(depot, taskClusters, n - 1),
           shuffledTasks \in shuffledOrders(taskClusters[n]) }

\* The values generateAlternatives(depot, taskClusters, iterations) can return.
generateAlternatives(depot, taskClusters, iterations) ==
  [1..iterations -> alternativeRoutes(depot, taskClusters, Len(taskClusters))]

\* solution.reduce((sum, r) => sum + r.totalDistance, 0)
syncTotalDistance(solution) ==
  LET sum[i \in 0..Len(solution)] ==
        IF i = 0 THEN 0 ELSE sum[i - 1] + solution[i].totalDistance
  IN sum[Len(solution)]

improveSolution(solution) ==
  MapSeq(solution,
         LAMBDA r : [vehicleId |-> r.vehicleId,
                     route |-> twoOptImprove(r.route),
                     totalDistance |-> calculateRouteDistance(twoOptImprove(r.route))])

\* improvedAlternatives.reduce(...): the first solution of least total distance.
syncBestSolution(improvedAlternatives) ==
  LET best[n \in 1..Len(improvedAlternatives)] ==
        IF n = 1 THEN improvedAlternatives[1]
        ELSE IF syncTotalDistance(improvedAlternatives[n]) < syncTotalDistance(best[n - 1])
             THEN improvedAlternatives[n]
             ELSE best[n - 1]
  IN best[Len(improvedAlternatives)]

\* Fault variant of slice: start is taken as a 1-based position.
sliceOneBased(s, start, end) == SubSeq(s, start, Min2(end, Len(s)))

\* Array.prototype.slice(start, end) with 0-based start and end.
slice(s, start, end) == SubSeq(s, start + 1, Min2(end, Len(s)))

\* The value optimizeRoutesWithAlternatives returns for the given candidates.
syncResultOf(alternatives) ==
  LET improvedAlternatives == MapSeq(alternatives, improveSolution)
      totals == MapSeq(improvedAlternatives, syncTotalDistance)
      sortedSolutions == SortByKey(improvedAlternatives, totals)
  IN [bestSolution |-> syncBestSolution(improvedAlternatives),
      alternativeSolutions |-> slice(sortedSolutions, 1, 4),
      iterations |-> Len(alternatives),
      convergence |-> SortByKey(totals, MapSeq(totals, LAMBDA d : 0 - d))]

NoSyncResult ==
  [bestSolution |-> <<>>, alternativeSolutions |-> <<>>, iterations |-> 0,
   convergence |-> <<>>]

(***************************************************************************)
(* The client: real_data.json, the site filter of                          *)
(* fetchOptimizationWithProgress and the results it returns.               *)
(***************************************************************************)
\* A JSON value found under transport_tasks.  A string and an array have a
\* length; undefined and null are falsy.
JsonUndefined == [kind |-> "undefined", items |-> <<>>]
JsonObject == [kind |-> "object", items |-> <<>>]
JsonArray(items) == [kind |-> "array", items |-> items]

Asset(name, la, lo, tasks, st, competitor) ==
  [id |-> name, location |-> Loc(la, lo), transport_tasks |-> tasks,
   status |-> st, rental_info |-> [is_competitor_rental |-> competitor]]

\* The assets real_data.json can list, in file order.
AssetUniverse ==
  << Asset("HC1", 1, 2, JsonArray(<<Task(LabelDeliveryStandard)>>), "active", FALSE),
     Asset("HC2", 0, 1, JsonArray(<<>>), "deployed", TRUE),
     Asset("HC5", 2, 0, JsonUndefined, "active", FALSE),
     Asset("HC6", 0, 2, JsonObject, "deployed", FALSE),
     Asset("HC4", 2, 2, JsonArray(<<Task(LabelDeliveryStandard),
                                    Task(LabelCollectionUrgent)>>), "deployed", TRUE) >>

\* What '/real_data.json' can hold: <<>> when it is missing or not JSON.
RealDataFiles ==
  {<<>>} \cup {<<[assets |-> a]>> : a \in SubSequences(AssetUniverse, MaxSites)}

DefaultParams == [utilizationRate |-> 85, hireDuration |-> 15]

ParamsUniverse == {DefaultParams, [utilizationRate |-> 50, hireDuration |-> 15]}

\* The vehicle count fetchOptimizationWithProgress passes to the optimizer.
FetchVehicles == 4

\* Fault variant of isValidSite: an empty task array passes the filter.
isValidSiteAnyArray(a) ==
  /\ a.transport_tasks.kind \notin {"undefined", "null"}
  /\ a.transport_tasks.kind = "array"

\* The filter callback of validSites: transport_tasks is truthy, is an array
\* and is not empty.
isValidSite(a) ==
  /\ a.transport_tasks.kind \notin {"undefined", "null"}
  /\ a.transport_tasks.kind = "array"
  /\ Len(a.transport_tasks.items) # 0

\* An asset as the optimizer reads it.
assetAsSite(a) == Site(a.id, a.location.lat, a.location.lng, a.transport_tasks.items)

validSites(realData) == MapSeq(SelectSeq(realData.assets, isValidSite), assetAsSite)

Decision(asset, what, related) ==
  [assetId |-> asset.id, decision |-> what, relatedAssetId |-> related]

isCompetitorRental(a) == a.rental_info.is_competitor_rental

isActive(a) == a.status = "active"

generateRealDataDecisions(realData, params) ==
  LET competitorRentals == slice(SelectSeq(realData.assets, isCompetitorRental), 0, 3)
      swaps == [i \in 1..Len(competitorRentals) |->
                  Decision(competitorRentals[i], "EXECUTE_SWAP", <<"DEPOT-", i>>)]
      inUseAssets == IF params.utilizationRate < 70
                     THEN slice(SelectSeq(realData.assets, isActive), 0, 2)
                     ELSE <<>>
      retrievals == [i \in 1..Len(inUseAssets) |->
                       Decision(inUseAssets[i], "RETRIEVE_TO_DEPOT", <<>>)]
      randomAssets == slice(realData.assets, 5, 7)
      inspections == [i \in 1..Len(randomAssets) |->
                        Decision(randomAssets[i], "SCHEDULE_INSPECTION", <<>>)]
  IN swaps \o retrievals \o inspections

\* The summary of a result is left out: no property reads it.
generateFallbackOptimization == [decisionsMade |-> <<>>, optimizedRoutes |-> <<>>]

NoFetchResult == [decisionsMade |-> <<>>, optimizedRoutes |-> <<"pending">>]

\* The distances the directions service can report for a route, and the
\* fallback of 1.4 times the computed distance.
realRoadDistances(route) ==
  {route.distance, (route.distance * 14) \div 10, 2 * route.distance}

\* The routes of a result: vehicleId, route, distance and realRoadDistance.
RECURSIVE routesWithRealDistances(_, _)
routesWithRealDistances(bestRoutes, n) ==
  IF n = 0 THEN {<<>>}
  ELSE { Append(front, [vehicleId |-> bestRoutes[n].vehicleId,
                        route |-> bestRoutes[n].route,
                        distance |-> bestRoutes[n].distance,
                        realRoadDistance |-> d])
         : front \in routesWithRealDistances(bestRoutes, n - 1),
           d \in realRoadDistances(bestRoutes[n]) }

(***************************************************************************)
(* State.  The run variables hold one call of optimizeWithProgress or of   *)
(* optimizeRoutesWithAlternatives; the call variables hold one call of a   *)
(* single function of the optimizer and what it returned.                  *)
(***************************************************************************)
VARIABLES
  pc,               \* position of the run
  sites,            \* the caller's site array
  numVehicles,      \* the caller's vehicle count
  clusters,         \* optimizeWithProgress: clusters
  gen,              \* optimizeWithProgress: gen
  individual,       \* optimizeWithProgress: individual
  bestInGeneration, \* the reduce accumulator over the members built so far
  bestSolution,     \* optimizeWithProgress: bestSolution
  bestTotalDistance,\* optimizeWithProgress: bestTotalDistance
  snapshot,         \* the argument of the progress callback being delivered
  callbackLog,      \* the generation indices the callback has been invoked with
  emittedMin,       \* the least totalDistance of the snapshots emitted so far
  emittedFirstMin,  \* the routes of the first snapshot that attained emittedMin
  result,           \* the value the returned promise resolved with
  syncResult,       \* the value optimizeRoutesWithAlternatives returned
  syncCandidates,   \* optimizeRoutesWithAlternatives: improvedAlternatives
  fnName,           \* the function called, "none" before the call
  fnArgs,           \* the arguments of the call
  fnResult,         \* what the call returned
  fnMember,         \* a population member built from fnResult
  population,       \* optimizeWithProgress: the distinct members of population, in order of first construction
  bestRoute,        \* improve2Opt: bestRoute
  improved,         \* improve2Opt: improved
  iterations,       \* improve2Opt: iterations
  realDataFile,     \* what '/real_data.json' holds, <<>> when it cannot be parsed
  realDataCache,    \* client.ts: realDataCache, <<>> for null
  simulationParams, \* App: simulationParams
  fetchPc,          \* position of handleOptimize and of fetchOptimizationWithProgress
  fetchResult,      \* what fetchOptimizationWithProgress returned
  optimizationProgress, \* App: optimizationProgress, generation 0 for null
  pendingFetches,   \* MapView: the snapshots whose directions fetches are in flight
  progressLayers    \* the map: the snapshot each 'progress-route-i' layer and source was drawn for, 0 when absent

runVars == <<pc, sites, numVehicles, clusters, gen, individual, bestInGeneration,
             bestSolution, bestTotalDistance, snapshot, callbackLog, emittedMin,
             emittedFirstMin, result, syncResult, syncCandidates>>

fnVars == <<fnName, fnArgs, fnResult, fnMember>>

\* The variables that only the specifications of single loops follow.
fetchVars == <<realDataFile, realDataCache, simulationParams, fetchPc, fetchResult>>

mapVars == <<optimizationProgress, pendingFetches, progressLayers>>

uiVars == <<fetchVars, mapVars>>

stepVars == <<population, bestRoute, improved, iterations, uiVars>>

vars == <<runVars, fnVars, stepVars>>

NoArgs == [route |-> <<>>, maxIterations |-> 0, sites |-> <<>>, k |-> 0,
           weeklyCapacity |-> 0, randomFactor |-> 0]

\* The run variables before a run has started on the given input.
RunIdle(input, vehicles) ==
  /\ pc = "idle"
  /\ sites = input
  /\ numVehicles = vehicles
  /\ clusters = <<>>
  /\ gen = 0
  /\ individual = 0
  /\ bestInGeneration = <<>>
  /\ bestSolution = <<>>
  /\ bestTotalDistance = Infinity
  /\ snapshot = NoSnapshot
  /\ callbackLog = <<>>
  /\ emittedMin = Infinity
  /\ emittedFirstMin = <<>>
  /\ result = <<>>
  /\ syncResult = NoSyncResult
  /\ syncCandidates = <<>>

\* The loop variables before a loop is entered.
StepIdle ==
  /\ population = <<>>
  /\ bestRoute = <<>>
  /\ improved = FALSE
  /\ iterations = 0

\* The client before handleOptimize is called, with no data file.
FetchIdle ==
  /\ realDataFile = <<>>
  /\ realDataCache = <<>>
  /\ simulationParams = DefaultParams
  /\ fetchPc = "idle"
  /\ fetchResult = NoFetchResult

NoProgress == [generation |-> 0, routes |-> 0]

\* The map before any progress line is drawn.
MapIdle ==
  /\ optimizationProgress = NoProgress
  /\ pendingFetches = {}
  /\ progressLayers = [i \in 0..3 |-> 0]

\* The call variables before a call with the given arguments.
FnIdle(args) ==
  /\ fnName = "none"
  /\ fnArgs = args
  /\ fnResult = <<>>
  /\ fnMember = <<>>

Init ==
  /\ StepIdle
  /\ FetchIdle
  /\ MapIdle
  /\ \E input \in InputSites, vehicles \in 0..MaxVehicles : RunIdle(input, vehicles)
  /\ FnIdle(NoArgs)

\* The sites the Priority Selector hands to the clusterer.
prioritySites(input) ==
  selectWeeklyPriorityTasks(consolidateSiteTasks(input), WEEKLY_PRIORITY_CAPACITY)

\* Fault variant of StartProgressive: the latitude sort of clusterSites acts
\* on the caller's array instead of a copy.
StartProgressiveSortingInput ==
  /\ pc = "idle"
  /\ IF clusterSitesThrows(prioritySites(sites), numVehicles)
     THEN /\ pc' = "error"
          /\ clusters' = clusters
     ELSE /\ pc' = "build"
          /\ clusters' = clusterSites(prioritySites(sites), numVehicles)
  /\ sites' = SortByKey(sites, MapSeq(sites, LAMBDA s : s.location.lat))
  /\ UNCHANGED <<numVehicles, gen, individual, bestInGeneration, bestSolution,
                 bestTotalDistance, snapshot, callbackLog, emittedMin,
                 emittedFirstMin, result, syncResult, syncCandidates, fnVars, stepVars>>

\* optimizeWithProgress up to the start of the generation loop.
StartProgressive ==
  /\ pc = "idle"
  /\ IF clusterSitesThrows(prioritySites(sites), numVehicles)
     THEN /\ pc' = "error"
          /\ clusters' = clusters
     ELSE /\ pc' = "build"
          /\ clusters' = clusterSites(prioritySites(sites), numVehicles)
  /\ UNCHANGED <<sites, numVehicles, gen, individual, bestInGeneration, bestSolution,
                 bestTotalDistance, snapshot, callbackLog, emittedMin,
                 emittedFirstMin, result, syncResult, syncCandidates, fnVars, stepVars>>

\* One pass of the loop over individuals: a member is constructed and folded
\* into the generation's best.
BuildIndividual ==
  /\ pc = "build"
  /\ individual < populationSize
  /\ \E routes \in memberRoutes(depotLocation, clusters, Len(clusters), gen, individual) :
       bestInGeneration' =
         IF individual = 0 THEN routes ELSE reduceBest(bestInGeneration, routes)
  /\ individual' = individual + 1
  /\ UNCHANGED <<pc, sites, numVehicles, clusters, gen, bestSolution,
                 bestTotalDistance, snapshot, callbackLog, emittedMin,
                 emittedFirstMin, result, syncResult, syncCandidates, fnVars, stepVars>>

\* The global best is updated and the progress callback is invoked; the run
\* then awaits the 500 ms timer.
EmitSnapshot ==
  /\ pc = "build"
  /\ individual = populationSize
  /\ LET generationBestDistance == totalDistance(bestInGeneration)
         isBest == improvesGlobalBest(generationBestDistance, bestTotalDistance)
     IN /\ bestSolution' = IF isBest THEN bestInGeneration ELSE bestSolution
        /\ bestTotalDistance' =
             IF isBest THEN generationBestDistance ELSE bestTotalDistance
        /\ snapshot' = progressOf(gen, bestInGeneration, generationBestDistance, isBest)
        /\ callbackLog' = Append(callbackLog, snapshot'.generation)
        /\ emittedMin' = Min2(emittedMin, generationBestDistance)
        /\ emittedFirstMin' =
             IF generationBestDistance < emittedMin
             THEN bestInGeneration ELSE emittedFirstMin
  /\ pc' = "delay"
  /\ UNCHANGED <<sites, numVehicles, clusters, gen, individual, bestInGeneration,
                 result, syncResult, syncCandidates, fnVars, stepVars>>

\* Fault variant of TimerFires: the loop ends one generation early.
TimerFiresOneShort ==
  /\ pc = "delay"
  /\ IF gen + 2 < generations
     THEN /\ pc' = "build"
          /\ result' = result
     ELSE /\ pc' = "done"
          /\ result' = bestSolution
  /\ gen' = gen + 1
  /\ individual' = 0
  /\ bestInGeneration' = <<>>
  /\ snapshot' = NoSnapshot
  /\ UNCHANGED <<sites, numVehicles, clusters, bestSolution, bestTotalDistance,
                 callbackLog, emittedMin, emittedFirstMin, syncResult,
                 syncCandidates, fnVars, stepVars>>

\* The timer fires: the loop goes on to the next generation, or the function
\* returns bestSolution after the last one.
TimerFires ==
  /\ pc = "delay"
  /\ IF gen + 1 < generations
     THEN /\ pc' = "build"
          /\ result' = result
     ELSE /\ pc' = "done"
          /\ result' = bestSolution
  /\ gen' = gen + 1
  /\ individual' = 0
  /\ bestInGeneration' = <<>>
  /\ snapshot' = NoSnapshot
  /\ UNCHANGED <<sites, numVehicles, clusters, bestSolution, bestTotalDistance,
                 callbackLog, emittedMin, emittedFirstMin, syncResult,
                 syncCandidates, fnVars, stepVars>>

\* optimizeRoutesWithAlternatives(sites, depotLocation, numVehicles): a
\* synchronous call, one step.
OptimizeRoutesWithAlternatives ==
  /\ pc = "idle"
  /\ LET dailyTasks == selectDailyTasks(sites)
     IN IF syncClusterSitesThrows(dailyTasks, numVehicles)
        THEN /\ pc' = "syncError"
             /\ syncResult' = syncResult
             /\ syncCandidates' = syncCandidates
        ELSE /\ pc' = "syncDone"
             /\ \E alternatives \in
                    generateAlternatives(depotLocation,
                                         syncClusterSites(dailyTasks, numVehicles), 8) :
                  /\ syncResult' = syncResultOf(alternatives)
                  /\ syncCandidates' = MapSeq(alternatives, improveSolution)
  /\ UNCHANGED <<sites, numVehicles, clusters, gen, individual, bestInGeneration,
                 bestSolution, bestTotalDistance, snapshot, callbackLog, emittedMin,
                 emittedFirstMin, result, fnVars, stepVars>>

Next ==
  \/ StartProgressive
  \/ BuildIndividual
  \/ EmitSnapshot
  \/ TimerFires
  \/ OptimizeRoutesWithAlternatives

Spec == Init /\ [][Next]_vars

\* A pass of the loop over individuals, by what it does to the loop counter.
\* The steps of Next that satisfy it are the steps of BuildIndividual, and it
\* is enabled exactly when BuildIndividual is: a member can always be built.
LoopBodyRuns ==
  /\ pc = "build"
  /\ individual < populationSize
  /\ individual' = individual + 1

\* The run under the scheduling of the JavaScript event loop: the synchronous
\* loop body runs to its end (generateRoute removes a site per pass and
\* improve2Opt is bounded by maxIterations), the progress callback returns,
\* and the 500 ms timer fires.
SpecFair ==
  /\ Spec
  /\ WF_individual(LoopBodyRuns)
  /\ WF_vars(EmitSnapshot)
  /\ WF_vars(TimerFires)

(***************************************************************************)
(* Single calls of the 2-opt functions, of the clusterer and of the        *)
(* priority selector, on inputs beyond those of a run.                     *)
(***************************************************************************)
MaxStops == 3
MaxBudget == 2
MaxCapacity == 2

\* The site records single calls are given: those of a run, a competitor
\* rental and a site that shares the location of HC1.
CallSiteUniverse ==
  SiteUniverse \o
  << Site("HC5", 3, 3, <<Task(StrCompetitorRental)>>),
     Site("HC6", 1, 2, <<Task(LabelSwap)>>) >>

\* The site lists of a call: up to MaxSites distinct records in any order.
CallSites == UNION {AllOrders(s) : s \in SubSequences(CallSiteUniverse, MaxSites)}

\* The stops a route of a 2-opt call can hold.
StopLocations == {Loc(1, 2), Loc(1, 0), Loc(2, 2), Loc(3, 3), Loc(0, 1)}

\* Depot-to-depot routes with up to MaxStops stops, stops may repeat.
TwoOptRoutes ==
  UNION { {<<depotLocation>> \o stops \o <<depotLocation>>
           : stops \in [1..n -> StopLocations]} : n \in 0..MaxStops }

InitTwoOpt ==
  /\ StepIdle
  /\ FetchIdle
  /\ MapIdle
  /\ RunIdle(<<>>, 0)
  /\ \E r \in TwoOptRoutes, budget \in 0..MaxBudget :
       FnIdle([NoArgs EXCEPT !.route = r, !.maxIterations = budget])

\* improve2Opt(route, maxIterations).  Every write of the function goes to
\* bestRoute, a copy of the argument, so the caller's array keeps its contents.
CallImprove2Opt ==
  /\ fnName = "none"
  /\ fnName' = "improve2Opt"
  /\ fnResult' = improve2Opt(fnArgs.route, fnArgs.maxIterations)
  /\ UNCHANGED <<fnArgs, fnMember, runVars, stepVars>>

\* twoOptImprove(route), likewise.
CallTwoOptImprove ==
  /\ fnName = "none"
  /\ fnName' = "twoOptImprove"
  /\ fnResult' = twoOptImprove(fnArgs.route)
  /\ UNCHANGED <<fnArgs, fnMember, runVars, stepVars>>

NextTwoOpt == CallImprove2Opt \/ CallTwoOptImprove

SpecTwoOpt == InitTwoOpt /\ [][NextTwoOpt]_vars

\* The site lists of a call of the clusterer: those of CallSites and those
\* with a site half way between the longitudes of HC3 and HC1.
ClusterCallSites ==
  UNION {AllOrders(s) :
           s \in SubSequences(CallSiteUniverse \o
                                << Site("HC7", 2, 1, <<Task(LabelSwap)>>) >>,
                              MaxSites)}

InitCluster ==
  /\ StepIdle
  /\ FetchIdle
  /\ MapIdle
  /\ RunIdle(<<>>, 0)
  /\ \E s \in ClusterCallSites, k \in 0..MaxVehicles :
       FnIdle([NoArgs EXCEPT !.sites = s, !.k = k])

\* clusterSites(sites, k) of the progressive optimizer.
CallClusterSites ==
  /\ fnName = "none"
  /\ IF clusterSitesThrows(fnArgs.sites, fnArgs.k)
     THEN /\ fnName' = "clusterSitesThrew"
          /\ fnResult' = fnResult
     ELSE /\ fnName' = "clusterSites"
          /\ fnResult' = clusterSites(fnArgs.sites, fnArgs.k)
  /\ UNCHANGED <<fnArgs, fnMember, runVars, stepVars>>

NextCluster == CallClusterSites

SpecCluster == InitCluster /\ [][NextCluster]_vars

InitSelect ==
  /\ StepIdle
  /\ FetchIdle
  /\ MapIdle
  /\ RunIdle(<<>>, 0)
  /\ \E s \in CallSites, capacity \in 0..MaxCapacity, k \in 0..MaxVehicles :
       FnIdle([NoArgs EXCEPT !.sites = s, !.weeklyCapacity = capacity, !.k = k])

\* selectWeeklyPriorityTasks(sites, weeklyCapacity)
CallSelectWeeklyPriorityTasks ==
  /\ fnName = "none"
  /\ fnName' = "selectWeeklyPriorityTasks"
  /\ fnResult' = selectWeeklyPriorityTasks(fnArgs.sites, fnArgs.weeklyCapacity)
  /\ UNCHANGED <<fnArgs, fnMember, runVars, stepVars>>

\* The selected sites are clustered for k vehicles and one population member
\* is built from the clusters, as optimizeWithProgress does for any
\* generation and individual.
BuildMember ==
  /\ fnName = "selectWeeklyPriorityTasks"
  /\ ~clusterSitesThrows(fnResult, fnArgs.k)
  /\ fnName' = "member"
  /\ LET cls == clusterSites(fnResult, fnArgs.k)
     IN \E g \in 0..(generations - 1), ind \in 0..(populationSize - 1) :
          \E routes \in memberRoutes(depotLocation, cls, Len(cls), g, ind) :
            fnMember' = routes
  /\ UNCHANGED <<fnArgs, fnResult, runVars, stepVars>>

NextSelect == CallSelectWeeklyPriorityTasks \/ BuildMember

\* improve2Opt(route, maxIterations), one scan of the while loop per step.
\* The entry: a route of 3 or fewer points is returned as it is; otherwise
\* bestRoute is a copy of the argument, improved is true and iterations is 0.
EnterImprove2Opt ==
  /\ fnName = "none"
  /\ IF Len(fnArgs.route) <= 3
     THEN /\ fnName' = "improve2Opt"
          /\ fnResult' = fnArgs.route
          /\ UNCHANGED <<bestRoute, improved, iterations>>
     ELSE /\ fnName' = "scanning"
          /\ bestRoute' = fnArgs.route
          /\ improved' = TRUE
          /\ iterations' = 0
          /\ fnResult' = fnResult
  /\ UNCHANGED <<fnArgs, fnMember, population, uiVars, runVars>>

\* Fault variant of ScanOnce: the loop condition does not test the budget.
ScanOnceIgnoringBudget ==
  /\ fnName = "scanning"
  /\ improved
  /\ iterations' = iterations + 1
  /\ LET accepted == improvingPairs(bestRoute)
     IN IF accepted = {}
        THEN /\ improved' = FALSE
             /\ bestRoute' = bestRoute
        ELSE /\ improved' = TRUE
             /\ bestRoute' = reverseSegment(bestRoute, firstPair(accepted)[1],
                                            firstPair(accepted)[2])
  /\ UNCHANGED <<fnName, fnArgs, fnResult, fnMember, population, uiVars, runVars>>

\* One pass of while (improved && iterations < maxIterations): the two for
\* loops stop at the first pair whose reversal is shorter by more than 0.01.
ScanOnce ==
  /\ fnName = "scanning"
  /\ improved
  /\ iterations < fnArgs.maxIterations
  /\ iterations' = iterations + 1
  /\ LET accepted == improvingPairs(bestRoute)
     IN IF accepted = {}
        THEN /\ improved' = FALSE
             /\ bestRoute' = bestRoute
        ELSE /\ improved' = TRUE
             /\ bestRoute' = reverseSegment(bestRoute, firstPair(accepted)[1],
                                            firstPair(accepted)[2])
  /\ UNCHANGED <<fnName, fnArgs, fnResult, fnMember, population, uiVars, runVars>>

\* The loop condition fails: the last point is set to the first and bestRoute
\* is returned.
ReturnBestRoute ==
  /\ fnName = "scanning"
  /\ ~(improved /\ iterations < fnArgs.maxIterations)
  /\ fnName' = "improve2Opt"
  /\ fnResult' = closeRoute(bestRoute)
  /\ UNCHANGED <<fnArgs, fnMember, bestRoute, improved, iterations, population,
                 uiVars, runVars>>

NextTwoOptSteps == EnterImprove2Opt \/ ScanOnce \/ ReturnBestRoute

\* The call runs synchronously: a step that can be taken is taken.
SpecTwoOptSteps ==
  /\ InitTwoOpt
  /\ [][NextTwoOptSteps]_vars
  /\ WF_vars(EnterImprove2Opt)
  /\ WF_vars(ScanOnce)
  /\ WF_vars(ReturnBestRoute)

\* Fault variant of BuildIndividualRecorded: generateRoute splices the sites
\* out of the cluster itself (remaining = sites) instead of a copy, which
\* leaves every cluster empty behind the member.
BuildIndividualRecordedConsuming ==
  /\ pc = "build"
  /\ individual < populationSize
  /\ \E routes \in memberRoutes(depotLocation, clusters, Len(clusters), gen, individual) :
       /\ bestInGeneration' =
            IF individual = 0 THEN routes ELSE reduceBest(bestInGeneration, routes)
       /\ population' =
            IF routes \in Range(population) THEN population
            ELSE Append(population, routes)
  /\ clusters' = [c \in 1..Len(clusters) |-> <<>>]
  /\ individual' = individual + 1
  /\ UNCHANGED <<pc, sites, numVehicles, gen, bestSolution,
                 bestTotalDistance, snapshot, callbackLog, emittedMin,
                 emittedFirstMin, result, syncResult, syncCandidates, fnVars,
                 bestRoute, improved, iterations, uiVars>>

\* The run with the population of each generation recorded.  A member equal
\* to one already built is not recorded again: population holds the distinct
\* members in the order in which they were first constructed.
BuildIndividualRecorded ==
  /\ pc = "build"
  /\ individual < populationSize
  /\ \E routes \in memberRoutes(depotLocation, clusters, Len(clusters), gen, individual) :
       /\ bestInGeneration' =
            IF individual = 0 THEN routes ELSE reduceBest(bestInGeneration, routes)
       /\ population' =
            IF routes \in Range(population) THEN population
            ELSE Append(population, routes)
  /\ individual' = individual + 1
  /\ UNCHANGED <<pc, sites, numVehicles, clusters, gen, bestSolution,
                 bestTotalDistance, snapshot, callbackLog, emittedMin,
                 emittedFirstMin, result, syncResult, syncCandidates, fnVars,
                 bestRoute, improved, iterations, uiVars>>

\* The timer fires and the next generation starts with an empty population.
TimerFiresRecorded ==
  /\ pc = "delay"
  /\ IF gen + 1 < generations
     THEN /\ pc' = "build"
          /\ result' = result
     ELSE /\ pc' = "done"
          /\ result' = bestSolution
  /\ gen' = gen + 1
  /\ individual' = 0
  /\ bestInGeneration' = <<>>
  /\ snapshot' = NoSnapshot
  /\ population' = <<>>
  /\ UNCHANGED <<sites, numVehicles, clusters, bestSolution, bestTotalDistance,
                 callbackLog, emittedMin, emittedFirstMin, syncResult,
                 syncCandidates, fnVars, bestRoute, improved, iterations, uiVars>>

NextPopulation ==
  \/ StartProgressive
  \/ BuildIndividualRecorded
  \/ EmitSnapshot
  \/ TimerFiresRecorded

SpecPopulation == Init /\ [][NextPopulation]_vars

SpecSelect == InitSelect /\ [][NextSelect]_vars

\* The random factors of a call of generateRoute: the default 0, and the
\* lowest and the highest factor of a run, in thousandths.
CallRandomFactors == {0, 50, 1240}

InitRoute ==
  /\ StepIdle
  /\ FetchIdle
  /\ MapIdle
  /\ RunIdle(<<>>, 0)
  /\ \E s \in CallSites, rf \in CallRandomFactors :
       FnIdle([NoArgs EXCEPT !.sites = s, !.randomFactor = rf])

\* generateRoute(depotLocation, sites, randomFactor)
CallGenerateRoute ==
  /\ fnName = "none"
  /\ fnName' = "generateRoute"
  /\ fnResult' \in generateRoute(depotLocation, fnArgs.sites, fnArgs.randomFactor)
  /\ UNCHANGED <<fnArgs, fnMember, runVars, stepVars>>

NextRoute == CallGenerateRoute

SpecRoute == InitRoute /\ [][NextRoute]_vars

(***************************************************************************)
(* Properties of the routes of a run.                                      *)
(***************************************************************************)
DepotToDepot(route) ==
  /\ Len(route) >= 2
  /\ route[1] = depotLocation
  /\ route[Len(route)] = depotLocation

AllDepotToDepot(routes) == \A i \in 1..Len(routes) : DepotToDepot(routes[i].route)

\* The points between the two endpoints of a route.
interiorOf(route) == SubSeq(route, 2, Len(route) - 1)

\* The interiors of the routes of a member, one after the other.
visitedBy(routes) ==
  LET acc[n \in 0..Len(routes)] ==
        IF n = 0 THEN <<>> ELSE acc[n - 1] \o interiorOf(routes[n].route)
  IN acc[Len(routes)]

locationsOf(siteList) == MapSeq(siteList, LAMBDA s : s.location)

\* C1: every route of every progress snapshot, of the final result of
\* optimizeWithProgress and of the best and alternative solutions of
\* optimizeRoutesWithAlternatives starts and ends at the depot, routes refined
\* by 2-opt included; the route of an empty cluster is [depot, depot].
C1_RoutesStartAndEndAtDepot ==
  /\ AllDepotToDepot(bestInGeneration)
  /\ AllDepotToDepot(snapshot.routes)
  /\ AllDepotToDepot(result)
  /\ AllDepotToDepot(syncResult.bestSolution)
  /\ \A a \in 1..Len(syncResult.alternativeSolutions) :
       AllDepotToDepot(syncResult.alternativeSolutions[a])
  /\ \A g \in 0..(generations - 1), ind \in 0..(populationSize - 1) :
       generateRoute(depotLocation, <<>>, individualRandomFactor(g, ind))
         = {<<depotLocation, depotLocation>>}
  /\ greedyTSP(depotLocation, <<>>) = <<depotLocation, depotLocation>>

\* A snapshot of a generation with 2-opt holds a route of three stops.
C1_Witness ==
  /\ pc = "delay"
  /\ snapshot.generation > 4
  /\ \E i \in 1..Len(snapshot.routes) : Len(snapshot.routes[i].route) = 5

\* C2: in every member emitted in a snapshot or returned as the final result,
\* the route interiors taken together hold each site chosen by the Priority
\* Selector exactly once and nothing else.
C2_InteriorsPartitionSelectedSites ==
  /\ (pc = "build" /\ individual > 0) =>
       SameMultiset(visitedBy(bestInGeneration), locationsOf(prioritySites(sites)))
  /\ pc = "delay" =>
       SameMultiset(visitedBy(snapshot.routes), locationsOf(prioritySites(sites)))
  /\ pc = "done" =>
       SameMultiset(visitedBy(result), locationsOf(prioritySites(sites)))

\* Three selected sites on two routes, in a generation with 2-opt.
C2_Witness ==
  /\ pc = "delay"
  /\ snapshot.generation > 4
  /\ Len(snapshot.routes) = 2
  /\ Len(prioritySites(sites)) = 3

\* C3 as stated: isBest is true exactly when the snapshot's distance is less
\* than or equal to every earlier snapshot distance.
C3_IsBestOnTies ==
  [][EmitSnapshot => (snapshot'.isBest <=> snapshot'.totalDistance <= emittedMin)]_vars

\* C3 amended: isBest is true exactly when the snapshot's distance is strictly
\* less than every earlier snapshot distance, and only then does the
\* generation's best replace the global best.
C3_IsBestOnStrictImprovement ==
  [][EmitSnapshot =>
       /\ snapshot'.isBest <=> snapshot'.totalDistance < emittedMin
       /\ bestSolution' = IF snapshot'.isBest THEN snapshot'.routes ELSE bestSolution
       /\ bestTotalDistance' = emittedMin']_vars

\* A later generation ties the running global best and is not marked best.
C3_Witness ==
  /\ pc = "delay"
  /\ snapshot.generation > 1
  /\ snapshot.totalDistance = emittedMin
  /\ snapshot.totalDistance > 0
  /\ ~snapshot.isBest

\* C4: the member the promise resolves with has the least totalDistance of
\* all snapshots of the run and is the member of a snapshot (the first one
\* that attained that distance).
C4_ResultIsMinimumSnapshot ==
  pc = "done" =>
    /\ totalDistance(result) = emittedMin
    /\ result = emittedFirstMin

\* The returned member was found in a generation after the first.
C4_Witness ==
  /\ pc = "done"
  /\ Len(result) > 0
  /\ result[1].generation > 0

NoSiteHasTasks == \A i \in 1..Len(sites) : ~hasTasks(sites[i])

C6_CallbackOncePerGenerationInOrder ==
  /\ callbackLog = [i \in 1..Len(callbackLog) |-> i]
  /\ pc \in {"idle", "error", "syncDone", "syncError"} => callbackLog = <<>>
  /\ pc = "build" => Len(callbackLog) = gen
  /\ pc = "delay" => (Len(callbackLog) = gen + 1 /\ snapshot.generation = gen + 1)
  /\ pc = "done" => Len(callbackLog) = generations
  /\ pc # "done" => result = <<>>

\* The promise has resolved after ten callbacks on a non-empty result.
C6_Witness ==
  /\ pc = "done"
  /\ callbackLog = <<1, 2, 3, 4, 5, 6, 7, 8, 9, 10>>
  /\ Len(result) > 0

(***************************************************************************)
(* Properties of single calls.                                             *)
(***************************************************************************)
\* C7: for a depot-to-depot route of more than 3 points and any budget,
\* improve2Opt and twoOptImprove return a route that is not longer than the
\* argument, has the same multiset of interior points and starts and ends at
\* the depot; the argument array holds after the call what it held before.
C7_TwoOptRefinesWithoutLoss ==
  [][(NextTwoOpt /\ Len(fnArgs.route) > 3) =>
       /\ calculateRouteDistance(fnResult') <= calculateRouteDistance(fnArgs.route)
       /\ SameMultiset(interiorOf(fnResult'), interiorOf(fnArgs.route))
       /\ DepotToDepot(fnResult')
       /\ fnArgs'.route = fnArgs.route]_vars

\* improve2Opt has reversed a segment of a route of three stops.
C7_Witness ==
  /\ fnName = "improve2Opt"
  /\ Len(fnArgs.route) = 5
  /\ fnResult # fnArgs.route
  /\ calculateRouteDistance(fnResult) < calculateRouteDistance(fnArgs.route)

\* The members of the groups, one group after the other.
flattened(groups) ==
  LET acc[n \in 0..Len(groups)] ==
        IF n = 0 THEN <<>> ELSE acc[n - 1] \o groups[n]
  IN acc[Len(groups)]

\* C8: for k >= 1 clusterSites returns, without failing, at most k groups,
\* none empty, pairwise disjoint, that together hold each input site exactly
\* once, on the passthrough path and on the seeded path.
C8_ClustersPartitionInput ==
  fnArgs.k >= 1 =>
    /\ fnName # "clusterSitesThrew"
    /\ fnName = "clusterSites" =>
         /\ \A c \in 1..Len(fnResult) : Len(fnResult[c]) > 0
         /\ Len(fnResult) <= fnArgs.k
         /\ \A c, d \in 1..Len(fnResult) :
              c # d => Range(fnResult[c]) \cap Range(fnResult[d]) = {}
         /\ SameMultiset(flattened(fnResult), fnArgs.sites)

\* The seeded path with two seeds at one location: one group is returned.
C8_Witness ==
  /\ fnName = "clusterSites"
  /\ fnArgs.k = 2
  /\ Len(fnArgs.sites) = 3
  /\ Len(fnResult) = 1

\* C9: selectWeeklyPriorityTasks returns at most weeklyCapacity sites and all
\* sites with tasks when they are at most weeklyCapacity; a member built from
\* the selection visits min(number of sites with tasks, weeklyCapacity) sites
\* for every vehicle count for which a member is built.
C9_SelectionWithinCapacity ==
  LET tasked == consolidateSiteTasks(fnArgs.sites)
  IN /\ fnName \in {"selectWeeklyPriorityTasks", "member"} =>
          /\ Len(fnResult) <= fnArgs.weeklyCapacity
          /\ Len(tasked) <= fnArgs.weeklyCapacity => SameMultiset(fnResult, tasked)
     /\ fnName = "member" =>
          Len(visitedBy(fnMember)) = Min2(Len(tasked), fnArgs.weeklyCapacity)

\* Three sites with tasks, capacity two: a member on two routes visits two.
C9_Witness ==
  /\ fnName = "member"
  /\ Len(consolidateSiteTasks(fnArgs.sites)) = 3
  /\ fnArgs.weeklyCapacity = 2
  /\ Len(fnMember) = 2
  /\ Len(visitedBy(fnMember)) = 2

scoresOf(siteList) == MapSeq(siteList, priorityScore)

NonIncreasing(q) == \A i \in 1..(Len(q) - 1) : q[i] >= q[i + 1]

\* The position of x in s.
positionIn(s, x) == CHOOSE i \in 1..Len(s) : s[i] = x

\* C10 as stated: when at most weeklyCapacity sites have tasks, the output
\* equals the consolidated input element for element.
C10_OutputEqualsInput ==
  LET tasked == consolidateSiteTasks(fnArgs.sites)
  IN (fnName = "selectWeeklyPriorityTasks" /\ Len(tasked) <= fnArgs.weeklyCapacity)
       => fnResult = tasked

\* C10 amended: when at most weeklyCapacity sites have tasks, the output holds
\* exactly the consolidated input's sites, in descending order of priority
\* score with sites of equal score in their input order; it equals the input
\* element for element exactly when the input's scores are non-increasing.
C10_OutputIsInputByDescendingScore ==
  LET tasked == consolidateSiteTasks(fnArgs.sites)
  IN (fnName = "selectWeeklyPriorityTasks" /\ Len(tasked) <= fnArgs.weeklyCapacity)
       => /\ SameMultiset(fnResult, tasked)
          /\ NonIncreasing(scoresOf(fnResult))
          /\ \A i, j \in 1..Len(fnResult) :
               (i < j /\ priorityScore(fnResult[i]) = priorityScore(fnResult[j]))
                 => positionIn(tasked, fnResult[i]) < positionIn(tasked, fnResult[j])
          /\ (fnResult = tasked) <=> NonIncreasing(scoresOf(tasked))

\* Two sites with tasks, capacity two: the output is the input reversed.
C10_Witness ==
  /\ fnName = "selectWeeklyPriorityTasks"
  /\ fnArgs.weeklyCapacity = 2
  /\ Len(consolidateSiteTasks(fnArgs.sites)) = 2
  /\ fnResult # consolidateSiteTasks(fnArgs.sites)

(***************************************************************************)
(* Scoring and ranking of the priority selector.                           *)
(***************************************************************************)
LabelCompetitorUpper ==
  <<"C","O","M","P","E","T","I","T","O","R","_","R","E","N","T","A","L">>
LabelCompetitorDelivery == StrCompetitorRental \o <<"-">> \o StrDelivery

\* The scores the scoring rule gives to the site records of a call, by id.
ExpectedScore ==
  [id \in {"HC1", "HC2", "HC3", "HC4", "HC5", "HC6"} |->
     CASE id = "HC1" -> 10 + 50
       [] id = "HC2" -> 0
       [] id = "HC3" -> 10 + 50
       [] id = "HC4" -> 10 * 2 + 50 + 30
       [] id = "HC5" -> 10 + 100
       [] id = "HC6" -> 10]

\* s[i] is ranked before s[j] among the sites with tasks: its score is
\* higher, or equal with s[i] earlier in the list.
rankedBefore(s, i, j) ==
  \/ ExpectedScore[s[i].id] > ExpectedScore[s[j].id]
  \/ ExpectedScore[s[i].id] = ExpectedScore[s[j].id] /\ i < j

\* C11: the output is the first weeklyCapacity sites of the consolidated
\* input in descending order of score, equal scores in input order, where the
\* score is 10 per task, + 50 for a label containing 'delivery' and + 30 for
\* one containing 'collection' in any letter case, + 100 for a label equal to
\* 'competitor_rental'.
C11_TopSitesByDescendingScore ==
  LET tasked == consolidateSiteTasks(fnArgs.sites)
      rank(i) == Cardinality({j \in 1..Len(tasked) : rankedBefore(tasked, j, i)}) + 1
  IN /\ \A i \in 1..Len(CallSiteUniverse) :
          priorityScore(CallSiteUniverse[i]) = ExpectedScore[CallSiteUniverse[i].id]
     /\ priorityScore(Site("X", 1, 1, <<Task(LabelCompetitorUpper)>>)) = 10
     /\ priorityScore(Site("X", 1, 1, <<Task(LabelCompetitorDelivery)>>)) = 10 + 50
     /\ fnName = "selectWeeklyPriorityTasks" =>
          /\ Len(fnResult) = Min2(Len(tasked), fnArgs.weeklyCapacity)
          /\ \A i \in 1..Len(tasked) :
               rank(i) <= fnArgs.weeklyCapacity => fnResult[rank(i)] = tasked[i]

\* Capacity two, three sites with tasks: the two sites kept have equal scores
\* and the site left out has the lowest score although it is listed first.
C11_Witness ==
  /\ fnName = "selectWeeklyPriorityTasks"
  /\ fnArgs.weeklyCapacity = 2
  /\ Len(consolidateSiteTasks(fnArgs.sites)) = 3
  /\ Len(fnResult) = 2
  /\ priorityScore(fnResult[1]) = priorityScore(fnResult[2])
  /\ fnArgs.sites[1] \notin Range(fnResult)

SiteDeliveryCollection == CallSiteUniverse[4]
SiteCompetitorRental == CallSiteUniverse[5]

\* Both sites are in the input of the call.
BothSitesGiven ==
  /\ fnName = "selectWeeklyPriorityTasks"
  /\ SiteDeliveryCollection \in Range(fnArgs.sites)
  /\ SiteCompetitorRental \in Range(fnArgs.sites)

\* The competitor rental site is placed above the other one: it is selected
\* whenever the capacity is not zero, and stands before the other if both are.
CompetitorRankedAbove ==
  fnArgs.weeklyCapacity >= 1 =>
    /\ SiteCompetitorRental \in Range(fnResult)
    /\ SiteDeliveryCollection \in Range(fnResult) =>
         positionIn(fnResult, SiteCompetitorRental)
           < positionIn(fnResult, SiteDeliveryCollection)

\* C12 as stated: the site with the two tasks 'Delivery-Standard' and
\* 'Collection-Urgent' scores 70, the site with the one task
\* 'competitor_rental' scores 110 and is ranked above it.
C12_ScoresSeventyAndHundredTen ==
  BothSitesGiven =>
    /\ priorityScore(SiteDeliveryCollection) = 70
    /\ priorityScore(SiteCompetitorRental) = 110
    /\ CompetitorRankedAbove

\* C12 amended: the site with the two tasks scores 100 (10 x 2 + 50 + 30),
\* the competitor rental site scores 110 and is ranked above it.
C12_ScoresHundredAndHundredTen ==
  BothSitesGiven =>
    /\ SiteDeliveryCollection.transport_tasks
         = <<Task(LabelDeliveryStandard), Task(LabelCollectionUrgent)>>
    /\ SiteCompetitorRental.transport_tasks = <<Task(StrCompetitorRental)>>
    /\ priorityScore(SiteDeliveryCollection) = 100
    /\ priorityScore(SiteCompetitorRental) = 110
    /\ CompetitorRankedAbove

\* The two sites are given with the competitor rental site last and are
\* returned with it first.
C12_Witness ==
  /\ fnName = "selectWeeklyPriorityTasks"
  /\ fnArgs.sites = <<SiteDeliveryCollection, SiteCompetitorRental>>
  /\ fnResult = <<SiteCompetitorRental, SiteDeliveryCollection>>

C14_SyncEmptyInputReturnsTrivialResult ==
  (NoSiteHasTasks /\ numVehicles >= 1) =>
    /\ pc # "syncError"
    /\ pc = "syncDone" =>
         /\ syncResult.bestSolution = <<>>
         /\ syncTotalDistance(syncResult.bestSolution) = 0

\* C15: in the best solution of optimizeRoutesWithAlternatives the route
\* interiors taken together hold each input site with tasks exactly once,
\* whatever the number and labels of its tasks.
C15_SyncVisitsEachSiteOnce ==
  pc = "syncDone" =>
    SameMultiset(visitedBy(syncResult.bestSolution),
                 locationsOf(consolidateSiteTasks(sites)))

\* C16: for a non-empty task set, bestSolution is a candidate of least total
\* distance among the candidates generated; alternativeSolutions are the at
\* most 3 next-best candidates other than the one returned as bestSolution,
\* in non-decreasing order of total distance, none shorter than the best; and
\* iterations is the number of candidates.
C16_SyncBestAndNextBest ==
  pc = "syncDone" =>
    LET n == Len(syncCandidates)
        total(i) == syncTotalDistance(syncCandidates[i])
        best == CHOOSE i \in 1..n :
                  \A j \in 1..n : total(i) <= total(j) /\ (j < i => total(j) > total(i))
        alts == syncResult.alternativeSolutions
        others == (1..n) \ {best}
    IN /\ n = 8
       /\ syncResult.iterations = n
       /\ syncResult.bestSolution = syncCandidates[best]
       /\ Len(alts) = Min2(3, n - 1)
       /\ \A a \in 1..Len(alts) :
            syncTotalDistance(alts[a]) >= syncTotalDistance(syncResult.bestSolution)
       /\ \E idx \in [1..Len(alts) -> others] :
            /\ \A a, b \in 1..Len(alts) : a # b => idx[a] # idx[b]
            /\ \A a \in 1..Len(alts) : alts[a] = syncCandidates[idx[a]]
            /\ \A a \in 1..(Len(alts) - 1) : total(idx[a]) <= total(idx[a + 1])
            /\ \A i \in others \ {idx[a] : a \in 1..Len(alts)} :
                 \A a \in 1..Len(alts) : total(idx[a]) <= total(i)

\* The candidates differ: the first alternative ties the best solution and
\* the third is longer.
C16_Witness ==
  /\ pc = "syncDone"
  /\ Len(syncResult.alternativeSolutions) = 3
  /\ syncTotalDistance(syncResult.alternativeSolutions[1])
       = syncTotalDistance(syncResult.bestSolution)
  /\ syncTotalDistance(syncResult.alternativeSolutions[3])
       > syncTotalDistance(syncResult.bestSolution)

(***************************************************************************)
(* Distances and the global best of a progressive run.                     *)
(***************************************************************************)
\* The sum of the distances of consecutive points of a route.
legSum(route) ==
  LET leg(i) == calculateDistance(route[i], route[i + 1])
      sum[i \in 0..(Len(route) - 1)] == IF i = 0 THEN 0 ELSE sum[i - 1] + leg(i)
  IN IF Len(route) = 0 THEN 0 ELSE sum[Len(route) - 1]

DistancesAreLegSums(routes) ==
  \A i \in 1..Len(routes) : routes[i].distance = legSum(routes[i].route)

\* The sum of the cached distances of the routes of a member.
cachedSum(routes) ==
  LET sum[i \in 0..Len(routes)] ==
        IF i = 0 THEN 0 ELSE sum[i - 1] + routes[i].distance
  IN sum[Len(routes)]

\* C17: the cached distance of every route candidate of every snapshot and of
\* the final result is the sum of the distances of consecutive points of the
\* route as emitted, and a snapshot's totalDistance is the sum of the cached
\* distances of its routes.
C17_CachedDistancesAreExact ==
  /\ DistancesAreLegSums(bestInGeneration)
  /\ DistancesAreLegSums(snapshot.routes)
  /\ DistancesAreLegSums(bestSolution)
  /\ DistancesAreLegSums(result)
  /\ pc = "delay" => snapshot.totalDistance = cachedSum(snapshot.routes)

\* The final result is a member of a generation with 2-opt, with a route of
\* three stops.
C17_Witness ==
  /\ pc = "done"
  /\ Len(result) >= 1
  /\ result[1].generation > 3
  /\ Len(result[1].route) = 5

\* C18: the global-best distance never increases; a generation whose best
\* does not improve on it leaves the global-best member and distance as they
\* were and emits a snapshot with isBest = false whose routes are the
\* generation's own best member.
C18_GlobalBestNeverIncreases ==
  [][/\ bestTotalDistance' <= bestTotalDistance
     /\ ~EmitSnapshot => bestSolution' = bestSolution
     /\ (EmitSnapshot /\ totalDistance(bestInGeneration) >= bestTotalDistance) =>
          /\ bestSolution' = bestSolution
          /\ bestTotalDistance' = bestTotalDistance
          /\ snapshot'.isBest = FALSE
          /\ snapshot'.routes = bestInGeneration]_vars

\* A snapshot of a generation that is longer than the retained global best.
C18_Witness ==
  /\ pc = "delay"
  /\ ~snapshot.isBest
  /\ snapshot.totalDistance > bestTotalDistance
  /\ snapshot.routes # bestSolution
  /\ totalDistance(bestSolution) = bestTotalDistance

latRank(input, j) ==
  Cardinality({m \in 1..Len(input) :
                 \/ input[m].location.lat < input[j].location.lat
                 \/ /\ input[m].location.lat = input[j].location.lat
                    /\ m < j})

\* The location of the i-th seed, i in 0..k-1: that of the site at rank
\* floor(i * n / k).
seedCenter(input, k, i) ==
  LET j == CHOOSE m \in 1..Len(input) : latRank(input, m) = (i * Len(input)) \div k
  IN input[j].location

\* The lowest index among the seeds nearest to loc.
nearestSeed(input, k, loc) ==
  CHOOSE i \in 0..(k - 1) :
    \A j \in 0..(k - 1) :
      LET di == calculateDistance(seedCenter(input, k, i), loc)
          dj == calculateDistance(seedCenter(input, k, j), loc)
      IN di < dj \/ (di = dj /\ i <= j)

\* The sites of the group of seed i, in input order.
seedGroup(input, k, i) ==
  SelectSeq(input, LAMBDA s : nearestSeed(input, k, s.location) = i)

\* The groups the single-pass algorithm is specified to return.
specifiedGroups(input, k) ==
  IF Len(input) <= k THEN [i \in 1..Len(input) |-> <<input[i]>>]
  ELSE LET keep[i \in 0..k] ==
             IF i = 0 THEN <<>>
             ELSE IF seedGroup(input, k, i - 1) = <<>> THEN keep[i - 1]
             ELSE Append(keep[i - 1], seedGroup(input, k, i - 1))
       IN keep[k]

\* C20: for k >= 1 clusterSites returns the groups of the single-pass
\* algorithm: singletons in input order when there are at most k sites;
\* otherwise the seeds are the sites at ranks floor(i*n/k) by ascending
\* latitude, each site joins its nearest seed, the lowest index on a tie, the
\* seeds stay as chosen, and groups without sites are left out.
C20_ClusterSitesIsSinglePass ==
  (fnName # "none" /\ fnArgs.k >= 1) =>
    /\ fnName = "clusterSites"
    /\ fnResult = specifiedGroups(fnArgs.sites, fnArgs.k)

\* The seeded path with two seeds at different locations and a third site at
\* the same distance from both: it is in the first group.
C20_Witness ==
  /\ fnName = "clusterSites"
  /\ fnArgs.k = 2
  /\ Len(fnArgs.sites) = 3
  /\ Len(fnResult) = 2
  /\ seedCenter(fnArgs.sites, 2, 0) # seedCenter(fnArgs.sites, 2, 1)
  /\ \E x \in 1..3 :
       /\ calculateDistance(seedCenter(fnArgs.sites, 2, 0), fnArgs.sites[x].location)
            = calculateDistance(seedCenter(fnArgs.sites, 2, 1), fnArgs.sites[x].location)
       /\ fnArgs.sites[x] \in Range(fnResult[1])

\* The first index of remaining among those nearest to current.
firstNearest(current, remaining) ==
  CHOOSE i \in 1..Len(remaining) :
    \A j \in 1..Len(remaining) :
      LET di == calculateDistance(current, remaining[i].location)
          dj == calculateDistance(current, remaining[j].location)
      IN di < dj \/ (di = dj /\ i <= j)

\* The stops of the nearest-neighbour tour from current over remaining.
RECURSIVE tourFrom(_, _)
tourFrom(current, remaining) ==
  IF Len(remaining) = 0 THEN <<>>
  ELSE LET idx == firstNearest(current, remaining)
       IN <<remaining[idx].location>>
            \o tourFrom(remaining[idx].location, RemoveAt(remaining, idx))

\* C21: with randomness 0 generateRoute returns the nearest-neighbour tour:
\* from the depot, the nearest remaining site each time, the first in the
\* remaining list on a tie, and the depot at the end; [depot, depot] for no
\* sites.
C21_ZeroRandomnessIsNearestNeighbour ==
  (fnName = "generateRoute" /\ fnArgs.randomFactor = 0) =>
    /\ fnResult = <<depotLocation>> \o tourFrom(depotLocation, fnArgs.sites)
                     \o <<depotLocation>>
    /\ Len(fnArgs.sites) = 0 => fnResult = <<depotLocation, depotLocation>>

\* A tour over three sites whose first stop was chosen on a tie between two
\* different locations.
C21_Witness ==
  /\ fnName = "generateRoute"
  /\ fnArgs.randomFactor = 0
  /\ Len(fnArgs.sites) = 3
  /\ \E i, j \in 1..3 :
       /\ i < j
       /\ fnArgs.sites[i].location # fnArgs.sites[j].location
       /\ calculateDistance(depotLocation, fnArgs.sites[i].location)
            = calculateDistance(depotLocation, fnArgs.sites[j].location)
       /\ fnResult[2] = fnArgs.sites[i].location

allRefined(routes, budget) ==
  \A i \in 1..Len(routes) : improve2Opt(routes[i].route, budget) = routes[i].route

\* C23 as stated: with g the generation index of the snapshot, 2-opt is
\* applied exactly when g > 3, with budget 50 exactly when g > 8 and 30
\* otherwise.
C23_TwoOptAfterGenerationThree ==
  pc = "delay" =>
    LET g == snapshot.generation
    IN /\ appliesTwoOpt(g - 1) <=> g > 3
       /\ g > 3 => twoOptIterations(g - 1) = (IF g > 8 THEN 50 ELSE 30)
       /\ g > 3 => allRefined(snapshot.routes, IF g > 8 THEN 50 ELSE 30)

\* C23, amended: with g the generation index of the snapshot, 2-opt is applied
\* exactly when g > 4 (the loop counter g - 1 is above 3), with budget 50
\* exactly when g > 9 (the last generation) and 30 for generations 5 to 9;
\* the routes of generations 1 to 4 are emitted as constructed.
C23_TwoOptAfterGenerationFour ==
  pc = "delay" =>
    LET g == snapshot.generation
    IN /\ appliesTwoOpt(g - 1) <=> g > 4
       /\ g > 4 => twoOptIterations(g - 1) = (IF g > 9 THEN 50 ELSE 30)
       /\ g > 4 => allRefined(snapshot.routes, IF g > 9 THEN 50 ELSE 30)
       /\ \A i \in 1..Len(snapshot.routes) :
            snapshot.routes[i].generation = g - 1

\* The snapshot of generation 4 holds a route that 2-opt would shorten.
C23_Witness ==
  /\ pc = "delay"
  /\ snapshot.generation = 4
  /\ ~allRefined(snapshot.routes, 30)

\* C24: every call of generateRoute that the driver is about to make, for the
\* member being built in any generation, is passed a randomness within [0, 1]
\* (0 to 1000 thousandths).
C24_RandomnessWithinUnitInterval ==
  (/\ pc = "build"
   /\ individual < populationSize
   /\ \E c \in 1..Len(clusters) : Len(clusters[c]) > 0)
    => individualRandomFactor(gen, individual) \in 0..1000

\* The reversal of the segment p[1]..p[2] shortens route by more than 0.01 km.
shortens(route, p) ==
  calculateRouteDistance(reverseSegment(route, p[1], p[2]))
    < calculateRouteDistance(route) - Epsilon

\* p comes before q in the order of the two for loops.
scannedBefore(p, q) == p[1] < q[1] \/ (p[1] = q[1] /\ p[2] < q[2])

\* The pairs (i, j), 1 <= i < j <= length - 2 in the code's 0-based indices.
candidatePairs(route) ==
  {p \in (1..Len(route)) \X (1..Len(route)) :
     2 <= p[1] /\ p[1] < p[2] /\ p[2] <= Len(route) - 1}

\* C25: improve2Opt terminates; it makes at most maxIterations scans; a scan
\* accepts at most one reversal, that of the first pair that shortens the
\* route by more than 0.01, and the loop ends with the first scan that accepts
\* none or when the budget is used up; a route of 3 or fewer points is
\* returned unchanged without a scan.
C25_Improve2OptTerminates ==
  /\ (fnName = "none") ~> (fnName = "improve2Opt")
  /\ [](iterations <= fnArgs.maxIterations)
  /\ [][iterations' # iterations =>
         /\ iterations' = iterations + 1
         /\ improved
         /\ \/ /\ bestRoute' = bestRoute
               /\ ~improved'
               /\ \A p \in candidatePairs(bestRoute) : ~shortens(bestRoute, p)
            \/ \E p \in candidatePairs(bestRoute) :
                 /\ bestRoute' = reverseSegment(bestRoute, p[1], p[2])
                 /\ improved'
                 /\ shortens(bestRoute, p)
                 /\ \A q \in candidatePairs(bestRoute) :
                      scannedBefore(q, p) => ~shortens(bestRoute, q)]_vars
  /\ [](fnName = "improve2Opt" =>
         /\ Len(fnArgs.route) <= 3 => fnResult = fnArgs.route /\ iterations = 0
         /\ Len(fnArgs.route) > 3 =>
              /\ ~improved \/ iterations = fnArgs.maxIterations
              /\ fnResult = closeRoute(bestRoute)
         /\ fnResult = improve2Opt(fnArgs.route, fnArgs.maxIterations))

\* A call that returned with the budget used up by scans that each accepted a
\* reversal.
C25_Witness ==
  /\ fnName = "improve2Opt"
  /\ Len(fnArgs.route) > 3
  /\ fnArgs.maxIterations >= 1
  /\ iterations = fnArgs.maxIterations
  /\ improved
  /\ bestRoute # fnArgs.route

\* The letters of the vehicle ids, by cluster index.
TruckLetters == <<"A", "B", "C", "D">>

\* The member has one route per cluster, in cluster order, under the id
\* 'Truck-' plus the letter of the cluster, and the interior of the route holds
\* the locations of the sites of that cluster.
followsClusters(member) ==
  /\ Len(member) = Len(clusters)
  /\ \A c \in 1..Len(member) :
       /\ member[c].vehicleId = <<"Truck-", TruckLetters[c]>>
       /\ SameMultiset(interiorOf(member[c].route), locationsOf(clusters[c]))
  /\ \A c, d \in 1..Len(member) : c # d => member[c].vehicleId # member[d].vehicleId

\* C26: in a run the clusters are left as they were computed before the first
\* generation, and every population member (each is the last of population
\* when it is recorded), every snapshot, the retained best and the result have
\* the same vehicle ids, distinct, 'Truck-' plus a letter by cluster index,
\* each with the sites of its cluster in the route interior.
C26_AssignmentNeverChanges ==
  /\ [][(pc \in {"build", "delay"}) => (clusters' = clusters)]_vars
  /\ [](pc \in {"build", "delay", "done"} =>
         /\ Len(population) > 0 => followsClusters(population[Len(population)])
         /\ individual > 0 => followsClusters(bestInGeneration)
         /\ pc = "delay" => followsClusters(snapshot.routes)
         /\ bestTotalDistance < Infinity => followsClusters(bestSolution)
         /\ pc = "done" => followsClusters(result))

\* A late generation of a run with two vehicles: several members recorded,
\* and a snapshot that is not the retained best.
C26_Witness ==
  /\ pc = "delay"
  /\ Len(clusters) = 2
  /\ gen >= 5
  /\ Len(population) >= 2
  /\ snapshot.routes # bestSolution

\* From current, the distances to the different locations of the remaining
\* tasks are pairwise different, and so they are from every position the
\* nearest-neighbour tour goes on to.
RECURSIVE tieFreeFrom(_, _)
tieFreeFrom(current, remaining) ==
  \/ Len(remaining) = 0
  \/ /\ \A i, j \in 1..Len(remaining) :
          remaining[i].location # remaining[j].location =>
            calculateDistance(current, remaining[i].location)
              # calculateDistance(current, remaining[j].location)
     /\ \A i \in 1..Len(remaining) :
          (\A j \in 1..Len(remaining) :
             calculateDistance(current, remaining[i].location)
               <= calculateDistance(current, remaining[j].location))
          => tieFreeFrom(remaining[i].location, RemoveAt(remaining, i))

\* The task clusters of the synchronous optimizer for the input of the run.
taskClustersOfRun == syncClusterSites(selectDailyTasks(sites), numVehicles)

tieFreeRun ==
  \A c \in 1..Len(taskClustersOfRun) : tieFreeFrom(depotLocation, taskClustersOfRun[c])

\* The point sequences of the routes of a solution.
routePointsOf(solution) == MapSeq(solution, LAMBDA r : r.route)

\* C27: when no position reached has two different remaining task points at
\* the same distance, the 8 candidates of optimizeRoutesWithAlternatives hold
\* the same route point sequences whatever the shuffles were, and every
\* alternative solution has the total distance of the best solution.
C27_CandidatesDifferOnlyByTies ==
  (pc = "syncDone" /\ tieFreeRun) =>
    /\ \A a, b \in 1..Len(syncCandidates) :
         routePointsOf(syncCandidates[a]) = routePointsOf(syncCandidates[b])
    /\ \A a \in 1..Len(syncResult.alternativeSolutions) :
         syncTotalDistance(syncResult.alternativeSolutions[a])
           = syncTotalDistance(syncResult.bestSolution)

\* A tie-free run with a cluster of tasks at different locations, whose order
\* a shuffle can change.
C27_Witness ==
  /\ pc = "syncDone"
  /\ tieFreeRun
  /\ Len(syncCandidates) = 8
  /\ Len(syncResult.alternativeSolutions) = 3
  /\ \E c \in 1..Len(taskClustersOfRun) :
       \E i, j \in 1..Len(taskClustersOfRun[c]) :
         taskClustersOfRun[c][i].location # taskClustersOfRun[c][j].location

\* C28: with vehicle count 0 and at least one site with tasks the run ends in
\* the error raised by clusterSites, before any snapshot: the callback is
\* never invoked and nothing is returned; with vehicle count 0 and no site
\* with tasks the run goes through its 10 generations, each with an empty
\* snapshot, and returns.
C28_ZeroVehicles ==
  /\ [](numVehicles = 0 /\ ~NoSiteHasTasks =>
         /\ pc \in {"idle", "error", "syncError"}
         /\ callbackLog = <<>>
         /\ snapshot = NoSnapshot
         /\ result = <<>>)
  /\ [][(StartProgressive /\ numVehicles = 0) =>
         (pc' = IF NoSiteHasTasks THEN "build" ELSE "error")]_vars
  /\ [](numVehicles = 0 /\ NoSiteHasTasks =>
         /\ pc # "error"
         /\ pc = "delay" => snapshot.routes = <<>> /\ snapshot.totalDistance = 0
         /\ pc = "done" => Len(callbackLog) = generations /\ result = <<>>)
  /\ (pc = "build" /\ numVehicles = 0) ~> (pc = "done")

\* The run with no vehicle and a site with tasks has ended in the error.
C28_Witness ==
  /\ pc = "error"
  /\ numVehicles = 0
  /\ ~NoSiteHasTasks
  /\ callbackLog = <<>>


(***************************************************************************)
(* handleOptimize and fetchOptimizationWithProgress: the data is loaded,   *)
(* the fallback is returned or the tasked sites go to the optimizer.       *)
(***************************************************************************)
InitFetch ==
  /\ StepIdle
  /\ MapIdle
  /\ RunIdle(<<>>, 0)
  /\ FnIdle(NoArgs)
  /\ realDataFile \in RealDataFiles
  /\ realDataCache \in {<<>>, realDataFile}
  /\ simulationParams \in ParamsUniverse
  /\ fetchPc = "idle"
  /\ fetchResult = NoFetchResult

\* handleOptimize calls fetchOptimizationWithProgress, which awaits
\* loadRealData.
CallFetchOptimization ==
  /\ fetchPc = "idle"
  /\ fetchPc' = "loading"
  /\ UNCHANGED <<realDataFile, realDataCache, simulationParams, fetchResult,
                 mapVars, population, bestRoute, improved, iterations, runVars,
                 fnVars>>

\* Nothing is cached and the fetch rejects or the body is not JSON:
\* loadRealData returns null and the fallback is returned.
LoadRealDataFails ==
  /\ fetchPc = "loading"
  /\ realDataCache = <<>>
  /\ fetchPc' = "returned"
  /\ fetchResult' = generateFallbackOptimization
  /\ UNCHANGED <<realDataFile, realDataCache, simulationParams,
                 mapVars, population, bestRoute, improved, iterations, runVars,
                 fnVars>>

\* The cache or the file delivers the data: the sites are filtered and
\* optimizeWithProgress is called with them and 4 vehicles.
LoadRealDataSucceeds ==
  /\ fetchPc = "loading"
  /\ realDataCache # <<>> \/ realDataFile # <<>>
  /\ realDataCache' = IF realDataCache # <<>> THEN realDataCache ELSE realDataFile
  /\ sites' = validSites(realDataCache'[1])
  /\ numVehicles' = FetchVehicles
  /\ fetchPc' = "optimizing"
  /\ UNCHANGED <<pc, clusters, gen, individual, bestInGeneration, bestSolution,
                 bestTotalDistance, snapshot, callbackLog, emittedMin,
                 emittedFirstMin, result, syncResult, syncCandidates,
                 realDataFile, simulationParams, fetchResult,
                 mapVars, population, bestRoute, improved, iterations, fnVars>>

\* The optimizer starts inside fetchOptimizationWithProgress only.
StartOptimizer ==
  /\ fetchPc = "optimizing"
  /\ StartProgressive

\* The optimizer has resolved: the road distances are fetched and the result
\* is returned.
ReturnOptimized ==
  /\ fetchPc = "optimizing"
  /\ pc = "done"
  /\ fetchPc' = "returned"
  /\ \E routes \in routesWithRealDistances(result, Len(result)) :
       fetchResult' =
         [decisionsMade |-> generateRealDataDecisions(realDataCache[1], simulationParams),
          optimizedRoutes |-> routes]
  /\ UNCHANGED <<realDataFile, realDataCache, simulationParams,
                 mapVars, population, bestRoute, improved, iterations, runVars,
                 fnVars>>

NextFetch ==
  \/ CallFetchOptimization
  \/ LoadRealDataFails
  \/ LoadRealDataSucceeds
  \/ StartOptimizer
  \/ BuildIndividual
  \/ EmitSnapshot
  \/ TimerFires
  \/ ReturnOptimized

SpecFetch == InitFetch /\ [][NextFetch]_vars

\* The assets of the loaded data that carry a non-empty task array.
taskedAssets ==
  SelectSeq(realDataCache[1].assets,
            LAMBDA a : a.transport_tasks.kind = "array" /\ a.transport_tasks.items # <<>>)

\* C29: when the data cannot be loaded, the call returns the fallback result,
\* which has no optimized routes and no decisions, the optimizer is never
\* started and the progress callback is never invoked; when the data loads,
\* the sites handed to the optimizer are exactly the assets whose
\* transport_tasks is an array of length > 0, in file order.
C29_FallbackOrTaskedSitesOnly ==
  /\ (fetchPc = "returned" /\ realDataCache = <<>>) =>
       /\ fetchResult = generateFallbackOptimization
       /\ fetchResult.optimizedRoutes = <<>>
       /\ fetchResult.decisionsMade = <<>>
       /\ pc = "idle"
       /\ callbackLog = <<>>
  /\ realDataCache = <<>> => (pc = "idle" /\ fetchPc \in {"idle", "loading", "returned"})
  /\ pc # "idle" =>
       /\ realDataCache # <<>>
       /\ Len(sites) = Len(taskedAssets)
       /\ \A i \in 1..Len(sites) :
            /\ sites[i].id = taskedAssets[i].id
            /\ sites[i].location = taskedAssets[i].location
            /\ sites[i].transport_tasks = taskedAssets[i].transport_tasks.items
            /\ Len(sites[i].transport_tasks) > 0
       /\ numVehicles = FetchVehicles

\* The load has failed and the fallback has been returned.
C29_Witness ==
  /\ fetchPc = "returned"
  /\ realDataCache = <<>>
  /\ realDataFile # <<>>
  /\ fetchResult = generateFallbackOptimization


(***************************************************************************)
(* App and MapView: the snapshots the progress callback stores in          *)
(* optimizationProgress, Effect 3 of MapView and its cleanup, and the      *)
(* directions fetches the effect starts.                                   *)
(***************************************************************************)
InitMap ==
  /\ StepIdle
  /\ FetchIdle
  /\ MapIdle
  /\ \E vehicles \in 0..MaxVehicles : RunIdle(<<>>, vehicles)
  /\ FnIdle(NoArgs)

\* clearProgressLines: the layer and the source of each of the 4 indices are
\* removed.
clearProgressLines == [i \in 0..3 |-> 0]

\* handleOptimize up to the call of fetchOptimizationWithProgress:
\* optimizationProgress is set to null, which it already is.
HandleOptimizeStarts ==
  /\ fetchPc = "idle"
  /\ fetchPc' = "optimizing"
  /\ optimizationProgress' = NoProgress
  /\ UNCHANGED <<realDataFile, realDataCache, simulationParams, fetchResult,
                 pendingFetches, progressLayers, population, bestRoute, improved,
                 iterations, runVars, fnVars>>

\* The optimizer invokes the progress callback with the snapshot of the next
\* generation, one route per vehicle; App stores it and MapView renders:
\* the cleanup of the previous effect and the body of the new one both clear
\* the progress lines, and the body starts the directions fetches of the
\* snapshot without awaiting them.
ProgressCallback ==
  /\ fetchPc = "optimizing"
  /\ Len(callbackLog) < generations
  /\ callbackLog' = Append(callbackLog, Len(callbackLog) + 1)
  /\ optimizationProgress' = [generation |-> Len(callbackLog) + 1, routes |-> numVehicles]
  /\ progressLayers' = clearProgressLines
  /\ pendingFetches' = pendingFetches \cup {optimizationProgress'}
  /\ UNCHANGED <<pc, sites, numVehicles, clusters, gen, individual, bestInGeneration,
                 bestSolution, bestTotalDistance, snapshot, emittedMin,
                 emittedFirstMin, result, syncResult, syncCandidates,
                 fetchVars, population, bestRoute, improved, iterations, fnVars>>

\* The promise of fetchOptimizationWithProgress settles, after the last
\* snapshot or with the fallback before the first; the finally block sets
\* optimizationProgress to null.  The cleanup of the last effect runs when
\* there was a snapshot; the new effect returns at once.
HandleOptimizeFinishes ==
  /\ fetchPc = "optimizing"
  /\ Len(callbackLog) \in {0, generations}
  /\ fetchPc' = "returned"
  /\ optimizationProgress' = NoProgress
  /\ progressLayers' =
       IF optimizationProgress # NoProgress THEN clearProgressLines ELSE progressLayers
  /\ UNCHANGED <<realDataFile, realDataCache, simulationParams, fetchResult,
                 pendingFetches, population, bestRoute, improved, iterations,
                 runVars, fnVars>>

\* Promise.all of the directions fetches of one snapshot resolves: for every
\* route of that snapshot the source and the layer 'progress-route-index'
\* are removed if present and added anew.
DirectionsArrive ==
  \E progress \in pendingFetches :
    /\ pendingFetches' = pendingFetches \ {progress}
    /\ progressLayers' =
         [i \in 0..3 |-> IF i < progress.routes THEN progress.generation
                         ELSE progressLayers[i]]
    /\ UNCHANGED <<optimizationProgress, fetchVars, population, bestRoute,
                   improved, iterations, runVars, fnVars>>

NextMap ==
  \/ HandleOptimizeStarts
  \/ ProgressCallback
  \/ HandleOptimizeFinishes
  \/ DirectionsArrive

SpecMap == InitMap /\ [][NextMap]_vars

\* C30: the dashed progress lines never outlive their snapshot: every
\* 'progress-route-*' layer and source on the map was drawn for the snapshot
\* optimizationProgress holds, and none is on the map while it is null.
C30_ProgressLinesNeverOutliveSnapshot ==
  \A i \in 0..3 :
    progressLayers[i] # 0 => progressLayers[i] = optimizationProgress.generation

=============================================================================
